---- MODULE Spec2Model ----
(***************************************************************************)
(* Model of the JSON load / dump / merge / rename utilities of tiny-utils  *)
(* (src/jjson.py and its variant src/.py).                                  *)
(*                                                                          *)
(* Python values are tagged pairs <<tag, payload>>:                         *)
(*   <<"null", "None">>          None                                       *)
(*   <<"bool", b>>               True / False                               *)
(*   <<"num", n>>                int                                        *)
(*   <<"str", s>>                a one-character str that is not JSON text  *)
(*   <<"text", toks>>            a str holding a document, as its tokens    *)
(*   <<"list", <<v1, ...>> >>    list                                       *)
(*   <<"dict", << <<k, v>>, ...>> >>  dict, in insertion order, keys unique *)
(*   <<"ns", items>>             types.SimpleNamespace (items: its __dict__)*)
(*   <<"obj", name>>             an object json cannot serialize (a set)    *)
(*   <<"path", p>>               pathlib.Path                               *)
(*   <<"exc", kind>>             an exception object used as a value        *)
(* A call that raises yields <<"raise", kind>>.                             *)
(* The values of one run hold no shared sub-objects (they are JSON trees),  *)
(* so an in-place update is modelled by the value of the object afterwards. *)
(***************************************************************************)
EXTENDS Integers, Sequences, FiniteSets, TLC

VARIABLES
    fs,      \* the filesystem: path -> absent, directory or file with its text
    pre,     \* the filesystem as it was when the last call started
    call,    \* the last call: its function and arguments
    ret,     \* what the last call returned, or <<"raise", kind>>
    obj,     \* the caller's argument object as the last call left it
    logged,  \* the logger calls the last call made
    calls,   \* the number of calls made
    threads  \* the j_dumps calls that run concurrently: position and locals

vars == <<fs, pre, call, ret, obj, logged, calls, threads>>

(***************************************************************************)
(* Bounds of the model.                                                    *)
(***************************************************************************)
MaxNum == 2
MaxMerge == 3
MaxCalls == 1
MaxRenames == 2    \* calls of replace_key_in_json on one structure

(***************************************************************************)
(* Python values.                                                          *)
(***************************************************************************)
None == <<"null", "None">>
PyTrue == <<"bool", TRUE>>
PyFalse == <<"bool", FALSE>>
Num(n) == <<"num", n>>
Str(s) == <<"str", s>>
Text(toks) == <<"text", toks>>
List(s) == <<"list", s>>
Dict(items) == <<"dict", items>>
NS(items) == <<"ns", items>>
Obj(name) == <<"obj", name>>
PathV(p) == <<"path", p>>
Exc(kind) == <<"exc", kind>>
Raise(kind) == <<"raise", kind>>

Tag(v) == v[1]
Payload(v) == v[2]
IsDict(v) == Tag(v) = "dict"
IsList(v) == Tag(v) = "list"
IsNS(v) == Tag(v) = "ns"
IsPath(v) == Tag(v) = "path"
IsStr(v) == Tag(v) \in {"str", "text"}
IsRaise(v) == Tag(v) = "raise"
IsExc(v) == Tag(v) = "exc"

EmptyDict == Dict(<<>>)
EmptyList == List(<<>>)

\* bool(v): the truth value Python gives v in `if v:`.
Truthy(v) ==
    CASE Tag(v) = "null" -> FALSE
      [] Tag(v) = "bool" -> Payload(v)
      [] Tag(v) = "num" -> Payload(v) # 0
      [] Tag(v) = "text" -> Payload(v) # <<>>
      [] Tag(v) \in {"list", "dict"} -> Payload(v) # <<>>
      [] OTHER -> TRUE

Range(s) == {s[i] : i \in 1..Len(s)}

\* body(v), with v evaluated once whatever the number of its uses in body.
With(v, body(_)) == CHOOSE y \in {body(w) : w \in {v}} : TRUE

\* dict primitives on the item sequence <<k, v>>, ...
KeySeq(items) == [i \in 1..Len(items) |-> items[i][1]]
KeySet(items) == {items[i][1] : i \in 1..Len(items)}
HasKey(items, k) == k \in KeySet(items)
KeyIndex(items, k) == CHOOSE i \in 1..Len(items) : items[i][1] = k
GetItem(items, k) == items[KeyIndex(items, k)][2]
\* d[k] = v: replaces the value in place, or appends a new key at the end.
SetItem(items, k, v) ==
    IF HasKey(items, k)
    THEN [items EXCEPT ![KeyIndex(items, k)] = <<k, v>>]
    ELSE Append(items, <<k, v>>)
\* d.pop(k) for a key that is present: the items without it.
DelItem(items, k) ==
    LET i == KeyIndex(items, k)
    IN  SubSeq(items, 1, i - 1) \o SubSeq(items, i + 1, Len(items))

\* Python's ==: dicts compare by key set and values whatever the order,
\* lists element by element, True == 1 and False == 0.
RECURSIVE PyEq(_, _)
PyEq(a, b) ==
    CASE Tag(a) = "dict" /\ Tag(b) = "dict" ->
            /\ KeySet(Payload(a)) = KeySet(Payload(b))
            /\ \A k \in KeySet(Payload(a)) :
                  PyEq(GetItem(Payload(a), k), GetItem(Payload(b), k))
      [] Tag(a) = "list" /\ Tag(b) = "list" ->
            /\ Len(Payload(a)) = Len(Payload(b))
            /\ \A i \in 1..Len(Payload(a)) : PyEq(Payload(a)[i], Payload(b)[i])
      [] Tag(a) = "bool" /\ Tag(b) = "num" ->
            Payload(b) = (IF Payload(a) THEN 1 ELSE 0)
      [] Tag(a) = "num" /\ Tag(b) = "bool" ->
            Payload(a) = (IF Payload(b) THEN 1 ELSE 0)
      [] Tag(a) = Tag(b) /\ Tag(a) \notin {"dict", "list"} -> a = b
      [] OTHER -> FALSE

(***************************************************************************)
(* Text.  A text is a sequence of tokens, each a string: the punctuation   *)
(* of JSON, the literals, ToString(n) for a number, the quoted form of a   *)
(* string, white space, and tokens that belong to no JSON document.        *)
(***************************************************************************)
Nums == 0..MaxNum
StrAtoms == {"x", "y"}
Keys == {"a", "b", "name", "category_name", "other"}
AllStrings == StrAtoms \cup Keys

\* The JSON string literal of s: s between double quotes.
Quote(s) == ToString(s)
NumTok(n) == ToString(n)
IsNumTok(t) == \E n \in Nums : NumTok(n) = t
NumOf(t) == CHOOSE n \in Nums : NumTok(n) = t
IsStrTok(t) == \E s \in AllStrings : Quote(s) = t
StrOf(t) == CHOOSE s \in AllStrings : Quote(s) = t

WS == " "
NL == "\n"
IsWs(t) == t \in {WS, NL}
\* A byte sequence that is not UTF-8: reading it as text raises.
BadByte == "<0xff>"

\* json.dump(data, f): the chunks the encoder yields, in order.  ok is FALSE
\* when it raised TypeError on a value it cannot serialize; out is what was
\* yielded (and written) before that.
RECURSIVE JsonChunks(_), JsonItems(_, _), JsonElems(_, _)
JsonChunks(v) ==
    CASE Tag(v) = "null" -> [out |-> <<"null">>, ok |-> TRUE]
      [] Tag(v) = "bool" ->
            [out |-> <<IF Payload(v) THEN "true" ELSE "false">>, ok |-> TRUE]
      [] Tag(v) = "num" -> [out |-> <<NumTok(Payload(v))>>, ok |-> TRUE]
      [] Tag(v) = "str" -> [out |-> <<Quote(Payload(v))>>, ok |-> TRUE]
      [] Tag(v) = "list" ->
            IF Payload(v) = <<>> THEN [out |-> <<"[", "]">>, ok |-> TRUE]
            ELSE With(JsonElems(Payload(v), 1), LAMBDA r :
                    [out |-> <<"[">> \o r.out \o (IF r.ok THEN <<"]">> ELSE <<>>),
                     ok |-> r.ok])
      [] Tag(v) = "dict" ->
            IF Payload(v) = <<>> THEN [out |-> <<"{", "}">>, ok |-> TRUE]
            ELSE With(JsonItems(Payload(v), 1), LAMBDA r :
                    [out |-> <<"{">> \o r.out \o (IF r.ok THEN <<"}">> ELSE <<>>),
                     ok |-> r.ok])
      [] OTHER -> [out |-> <<>>, ok |-> FALSE]
JsonElems(elems, i) ==
    IF i > Len(elems) THEN [out |-> <<>>, ok |-> TRUE]
    ELSE LET sep == IF i = 1 THEN <<>> ELSE <<",", WS>>
         IN  With(JsonChunks(elems[i]), LAMBDA r :
                IF ~r.ok THEN [out |-> sep \o r.out, ok |-> FALSE]
                ELSE With(JsonElems(elems, i + 1), LAMBDA rest :
                        [out |-> sep \o r.out \o rest.out, ok |-> rest.ok]))
JsonItems(items, i) ==
    IF i > Len(items) THEN [out |-> <<>>, ok |-> TRUE]
    ELSE LET sep == IF i = 1 THEN <<>> ELSE <<",", WS>>
             head == sep \o <<Quote(items[i][1]), ":", WS>>
         IN  With(JsonChunks(items[i][2]), LAMBDA r :
                IF ~r.ok THEN [out |-> head \o r.out, ok |-> FALSE]
                ELSE With(JsonItems(items, i + 1), LAMBDA rest :
                        [out |-> head \o r.out \o rest.out, ok |-> rest.ok]))

\* json.loads(text).  A parse step gives <<ok, value, next index>>.
ParseFail == <<FALSE, None, 0>>
RECURSIVE SkipWs(_, _)
SkipWs(toks, i) ==
    IF i <= Len(toks) /\ IsWs(toks[i]) THEN SkipWs(toks, i + 1) ELSE i
RECURSIVE ParseValue(_, _), ParseElems(_, _, _), ParseItems(_, _, _)
ParseValue(toks, i0) ==
    LET i == SkipWs(toks, i0)
    IN  IF i > Len(toks) THEN ParseFail
        ELSE LET t == toks[i]
             IN  CASE t = "null" -> <<TRUE, None, i + 1>>
                   [] t = "true" -> <<TRUE, PyTrue, i + 1>>
                   [] t = "false" -> <<TRUE, PyFalse, i + 1>>
                   [] IsNumTok(t) -> <<TRUE, Num(NumOf(t)), i + 1>>
                   [] IsStrTok(t) -> <<TRUE, Str(StrOf(t)), i + 1>>
                   [] t = "[" ->
                        LET j == SkipWs(toks, i + 1)
                        IN  IF j <= Len(toks) /\ toks[j] = "]"
                            THEN <<TRUE, EmptyList, j + 1>>
                            ELSE ParseElems(toks, j, <<>>)
                   [] t = "{" ->
                        LET j == SkipWs(toks, i + 1)
                        IN  IF j <= Len(toks) /\ toks[j] = "}"
                            THEN <<TRUE, EmptyDict, j + 1>>
                            ELSE ParseItems(toks, j, <<>>)
                   [] OTHER -> ParseFail
\* After "[" or ",": a value, then "," or "]".
ParseElems(toks, i, acc) ==
    With(ParseValue(toks, i), LAMBDA r :
        IF ~r[1] THEN ParseFail
        ELSE LET j == SkipWs(toks, r[3])
             IN  IF j > Len(toks) THEN ParseFail
                 ELSE IF toks[j] = "]" THEN <<TRUE, List(Append(acc, r[2])), j + 1>>
                 ELSE IF toks[j] = "," THEN ParseElems(toks, j + 1, Append(acc, r[2]))
                 ELSE ParseFail)
\* After "{" or ",": a string key, ":", a value, then "," or "}".  A key
\* met again keeps its place and takes the later value.
ParseItems(toks, i0, acc) ==
    LET i == SkipWs(toks, i0)
    IN  IF i > Len(toks) \/ ~IsStrTok(toks[i]) THEN ParseFail
        ELSE LET c == SkipWs(toks, i + 1)
             IN  IF c > Len(toks) \/ toks[c] # ":" THEN ParseFail
                 ELSE With(ParseValue(toks, c + 1), LAMBDA r :
                          IF ~r[1] THEN ParseFail
                          ELSE LET j == SkipWs(toks, r[3])
                                   acc2 == SetItem(acc, StrOf(toks[i]), r[2])
                               IN  IF j > Len(toks) THEN ParseFail
                                   ELSE IF toks[j] = "}" THEN <<TRUE, Dict(acc2), j + 1>>
                                   ELSE IF toks[j] = "," THEN ParseItems(toks, j + 1, acc2)
                                   ELSE ParseFail)
\* The whole text must be one value: anything after it but white space is
\* "Extra data".
JsonLoads(toks) ==
    With(ParseValue(toks, 1), LAMBDA r :
        IF r[1] /\ SkipWs(toks, r[3]) > Len(toks) THEN r[2]
        ELSE Raise("JSONDecodeError"))

(***************************************************************************)
(* The filesystem: every path of the model is absent, a directory or a     *)
(* file with its text.  "." (the working directory) always exists.         *)
(***************************************************************************)
Root == "."
PathSeq ==
    << "f.json", "n", "n/g.json", "d", "d/x.json", "d/y.json", "d/sub",
       "d/sub/z.json", "t.csv", "t.csv/k", "t.csv/k/g.json", "gone.json",
       "n/h.json" >>
AllPaths == Range(PathSeq)
Rank(p) == CHOOSE i \in 1..Len(PathSeq) : PathSeq[i] = p

\* Path.parent
Parent(p) ==
    CASE p \in {"n/g.json", "n/h.json"} -> "n"
      [] p \in {"d/x.json", "d/y.json", "d/sub"} -> "d"
      [] p = "d/sub/z.json" -> "d/sub"
      [] p = "t.csv/k" -> "t.csv"
      [] p = "t.csv/k/g.json" -> "t.csv/k"
      [] OTHER -> Root
\* Path.suffix
Suffix(p) ==
    CASE p \in {"f.json", "n/g.json", "d/x.json", "d/y.json", "d/sub/z.json",
                "t.csv/k/g.json", "gone.json", "n/h.json"} -> ".json"
      [] p = "t.csv" -> ".csv"
      [] OTHER -> ""

Absent == <<"absent">>
DirNode == <<"dir">>
FileNode(text) == <<"file", text>>
IsFile(F, p) == p # Root /\ F[p][1] = "file"
IsDir(F, p) == p = Root \/ F[p][1] = "dir"
Exists(F, p) == p = Root \/ F[p] # Absent
FileText(F, p) == F[p][2]

\* os.listdir order is not specified: rev picks one of the two directions of
\* a fixed order, so any two entries are seen in both relative orders.
Before(p, q, rev) == IF rev THEN Rank(p) > Rank(q) ELSE Rank(p) < Rank(q)
RECURSIVE SortPaths(_, _)
SortPaths(S, rev) ==
    IF S = {} THEN <<>>
    ELSE LET m == CHOOSE p \in S : \A q \in S \ {p} : Before(p, q, rev)
         IN  <<m>> \o SortPaths(S \ {m}, rev)
ChildFiles(F, p, rev) == SortPaths({q \in AllPaths : Parent(q) = p /\ IsFile(F, q)}, rev)
ChildDirs(F, p, rev) == SortPaths({q \in AllPaths : Parent(q) = p /\ IsDir(F, q)}, rev)

\* The files os.walk(p) yields, top-down: the files of p, then those of each
\* sub-directory in turn.
RECURSIVE WalkFiles(_, _, _), WalkDirs(_, _, _, _)
WalkFiles(F, p, rev) == ChildFiles(F, p, rev) \o WalkDirs(F, ChildDirs(F, p, rev), 1, rev)
WalkDirs(F, ds, i, rev) ==
    IF i > Len(ds) THEN <<>>
    ELSE WalkFiles(F, ds[i], rev) \o WalkDirs(F, ds, i + 1, rev)

\* open(p, "r", encoding="utf-8").read() of an existing file.
ReadText(F, p) ==
    IF ~Exists(F, p) THEN Raise("FileNotFoundError")
    ELSE IF IsDir(F, p) THEN Raise("IsADirectoryError")
    ELSE IF BadByte \in Range(FileText(F, p)) THEN Raise("UnicodeDecodeError")
    ELSE Text(FileText(F, p))
\* json.load(p.open("r", encoding="utf-8"))
JsonLoadFile(F, p) ==
    LET t == ReadText(F, p)
    IN  IF IsRaise(t) THEN t ELSE JsonLoads(Payload(t))

\* path.parent.mkdir(parents=True, exist_ok=True): the filesystem afterwards,
\* or ok = FALSE when an ancestor is a file.
RECURSIVE Mkdirs(_, _)
Mkdirs(F, p) ==
    IF p = Root \/ IsDir(F, p) THEN [fs |-> F, ok |-> TRUE]
    ELSE IF IsFile(F, p) THEN [fs |-> F, ok |-> FALSE]
    ELSE With(Mkdirs(F, Parent(p)), LAMBDA up :
            IF up.ok THEN [fs |-> [up.fs EXCEPT ![p] = DirNode], ok |-> TRUE]
            ELSE up)

(***************************************************************************)
(* Tabular files.  A CSV text is cells separated by "," in lines ended by  *)
(* NL; the texts of the model are rectangular (every row has as many cells *)
(* as the header).                                                         *)
(***************************************************************************)
\* The cells of the line that starts at token i, and the index after its NL.
RECURSIVE CsvLine(_, _, _)
CsvLine(toks, i, acc) ==
    IF i > Len(toks) THEN <<acc, i>>
    ELSE IF toks[i] = NL THEN <<acc, i + 1>>
    ELSE IF toks[i] = "," THEN CsvLine(toks, i + 1, acc)
    ELSE CsvLine(toks, i + 1, Append(acc, toks[i]))
RECURSIVE CsvLines(_, _)
CsvLines(toks, i) ==
    IF i > Len(toks) THEN <<>>
    ELSE With(CsvLine(toks, i, <<>>), LAMBDA l : <<l[1]>> \o CsvLines(toks, l[2]))
\* A column of numbers is read as int, any other column as str.
CsvCell(lines, r, c) ==
    IF \A q \in 2..Len(lines) : IsNumTok(lines[q][c])
    THEN Num(NumOf(lines[r][c]))
    ELSE Str(lines[r][c])
\* pd.read_csv(p).to_dict(orient='records')
ReadCsv(F, p) ==
    LET t == ReadText(F, p)
    IN  IF IsRaise(t) THEN t
        ELSE With(CsvLines(Payload(t), 1), LAMBDA lines :
                IF lines = <<>> THEN Raise("EmptyDataError")
                ELSE List([r \in 1..(Len(lines) - 1) |->
                        Dict([c \in 1..Len(lines[1]) |->
                            <<lines[1][c], CsvCell(lines, r + 1, c)>>])]))

(***************************************************************************)
(* The logging sink (src.logger): it takes the message and returns; a log  *)
(* is the sequence of the severities of the calls made.                    *)
(***************************************************************************)
LoggerCall(log, severity) == Append(log, severity)

(***************************************************************************)
(* merge_dicts.  dict_list is a sequence of dicts.                         *)
(***************************************************************************)
RECURSIVE merge_dicts(_), MergeKeys(_, _, _, _), MergeRest(_, _, _)
\* A merge that lets a later sequence replace the earlier one instead of
\* extending it.
MergeKeysOverwrite(merged, d, ks, i) ==
    IF i > Len(ks) THEN merged
    ELSE LET key == ks[i]
         IN  IF ~HasKey(d, key) THEN MergeKeys(merged, d, ks, i + 1)
             ELSE LET m == GetItem(merged, key)
                      v == GetItem(d, key)
                  IN  With(IF IsDict(m) /\ IsDict(v) THEN merge_dicts(<<m, v>>) ELSE v,
                           LAMBDA new : MergeKeys(SetItem(merged, key, new), d, ks, i + 1))
\* for key in merged.keys(): ... from the i-th key of ks on
MergeKeys(merged, d, ks, i) ==
    IF i > Len(ks) THEN merged
    ELSE LET key == ks[i]
         IN  IF ~HasKey(d, key) THEN MergeKeys(merged, d, ks, i + 1)
             ELSE LET m == GetItem(merged, key)
                      v == GetItem(d, key)
                  IN  With(IF IsDict(m) /\ IsDict(v) THEN merge_dicts(<<m, v>>)
                           ELSE IF IsList(m) /\ IsList(v)
                                THEN List(Payload(m) \o Payload(v))
                           ELSE v,
                           LAMBDA new : MergeKeys(SetItem(merged, key, new), d, ks, i + 1))
\* A loop that takes the last mapping of the list only.
MergeRestLastOnly(merged, dict_list, j) ==
    IF j > Len(dict_list) THEN merged
    ELSE MergeKeys(merged, Payload(dict_list[Len(dict_list)]), KeySeq(merged), 1)
\* for d in dict_list[1:]: ... from the j-th element on
MergeRest(merged, dict_list, j) ==
    IF j > Len(dict_list) THEN merged
    ELSE With(MergeKeys(merged, Payload(dict_list[j]), KeySeq(merged), 1),
              LAMBDA m : MergeRest(m, dict_list, j + 1))
\* A merge that also takes over the keys only the last mapping has.
merge_dicts_union(dict_list) ==
    IF dict_list = <<>> THEN Raise("IndexError")
    ELSE With(MergeRest(Payload(dict_list[1]), dict_list, 2), LAMBDA merged :
            Dict(merged \o SelectSeq(Payload(dict_list[Len(dict_list)]),
                                     LAMBDA item : ~HasKey(merged, item[1]))))
merge_dicts(dict_list) ==
    IF dict_list = <<>> THEN Raise("IndexError")
    ELSE Dict(MergeRest(Payload(dict_list[1]), dict_list, 2))

\* The mappings of the list after merge_dicts.  merged[key] = d[key] stores
\* the object of d itself, so what is later done to merged[key] in place is
\* done to d[key] too.  ds are the mappings of the list (ds[1] is merged, the
\* mappings given are distinct objects), and <<P, j>> in al says that the
\* object at the path of keys P of merged is the object at P of ds[j].
RECURSIVE GetPath(_, _), SetPath(_, _, _)
GetPath(v, P) ==
    IF P = <<>> THEN v ELSE GetPath(GetItem(Payload(v), Head(P)), Tail(P))
SetPath(v, P, new) ==
    IF P = <<>> THEN new
    ELSE Dict(SetItem(Payload(v), Head(P),
                      SetPath(GetItem(Payload(v), Head(P)), Tail(P), new)))
IsPrefix(Q, P) == Len(Q) <= Len(P) /\ SubSeq(P, 1, Len(Q)) = Q
\* the mappings that hold the object at P of merged
Holders(al, P) == {1} \cup {b[2] : b \in {c \in al : IsPrefix(c[1], P)}}
StoreAt(ds, P, new, hold) ==
    [t \in DOMAIN ds |-> IF t \in hold THEN SetPath(ds[t], P, new) ELSE ds[t]]
\* for key in merged.keys(): ... of the mapping at P, for d = ds[j] at P
RECURSIVE MergeInPlace(_, _, _, _, _)
MergeInPlace(st, j, P, ks, i) ==
    IF i > Len(ks) THEN st
    ELSE LET key == ks[i]
             path == Append(P, key)
         IN  IF ~HasKey(Payload(GetPath(st.ds[j], P)), key)
             THEN MergeInPlace(st, j, P, ks, i + 1)
             ELSE LET m == GetPath(st.ds[1], path)
                      v == GetPath(st.ds[j], path)
                  IN  With(IF IsDict(m) /\ IsDict(v)
                           THEN MergeInPlace(st, j, path, KeySeq(Payload(m)), 1)
                           ELSE IF IsList(m) /\ IsList(v)
                           THEN [st EXCEPT !.ds = StoreAt(st.ds, path,
                                                          List(Payload(m) \o Payload(v)),
                                                          Holders(st.al, path))]
                           ELSE [ds |-> StoreAt(st.ds, path, v, Holders(st.al, P)),
                                 al |-> {b \in st.al : ~IsPrefix(path, b[1])}
                                        \cup {<<path, j>>}],
                           LAMBDA s2 : MergeInPlace(s2, j, P, ks, i + 1))
\* for d in dict_list[1:]: ... from the j-th element on
RECURSIVE MergeRestInPlace(_, _)
MergeRestInPlace(st, j) ==
    IF j > Len(st.ds) THEN st
    ELSE With(MergeInPlace(st, j, <<>>, KeySeq(Payload(st.ds[1])), 1),
              LAMBDA s2 : MergeRestInPlace(s2, j + 1))
merge_dicts_list(dict_list) == MergeRestInPlace([ds |-> dict_list, al |-> {}], 2).ds

(***************************************************************************)
(* j_loads of src/jjson.py.                                                *)
(***************************************************************************)
\* list.extend(v): the elements of a list, the keys of a dict, the
\* characters of a str (the strs of the model have one character).
ListExtend(acc, v) ==
    CASE Tag(v) = "list" -> acc \o Payload(v)
      [] Tag(v) = "dict" -> acc \o [i \in 1..Len(Payload(v)) |-> Str(Payload(v)[i][1])]
      [] Tag(v) = "str" -> Append(acc, v)
      [] OTHER -> Raise("TypeError")

\* clean_string(jjson): the text without leading and trailing white space.
RECURSIVE StripLeft(_), StripRight(_)
StripLeft(toks) ==
    IF toks # <<>> /\ IsWs(Head(toks)) THEN StripLeft(Tail(toks)) ELSE toks
StripRight(toks) ==
    IF toks # <<>> /\ IsWs(toks[Len(toks)])
    THEN StripRight(SubSeq(toks, 1, Len(toks) - 1)) ELSE toks
\* The tokens of a str value.
AsText(v) == IF Tag(v) = "text" THEN Payload(v) ELSE <<Payload(v)>>
clean_string(jjson) ==
    IF ~IsStr(jjson) THEN Raise("AttributeError")
    ELSE LET cleaned_str == StripRight(StripLeft(AsText(jjson)))
         IN  IF cleaned_str = <<>> THEN Raise("ValueError") ELSE Text(cleaned_str)

\* _load_csv_from_file: an unreadable file is logged and gives [].
j_loads_load_csv_from_file(F, p) ==
    With(ReadCsv(F, p), LAMBDA r :
        IF IsRaise(r) THEN [ret |-> EmptyList, log |-> LoggerCall(<<>>, "error")]
        ELSE [ret |-> r, log |-> <<>>])

\* The loop over os.walk: json_data and csv_data after the files from the
\* i-th on, or the exception that ended it.
RECURSIVE j_loads_walk(_, _, _, _, _, _)
j_loads_walk(F, files, i, json_data, csv_data, log) ==
    IF i > Len(files) THEN [raised |-> None, json |-> json_data, csv |-> csv_data, log |-> log]
    ELSE LET file_path == files[i]
         IN  IF Suffix(file_path) = ".json"
             THEN With(JsonLoadFile(F, file_path), LAMBDA v :
                  With(IF IsRaise(v) THEN v ELSE ListExtend(json_data, v), LAMBDA e :
                      IF IsRaise(e)
                      THEN [raised |-> e, json |-> json_data, csv |-> csv_data, log |-> log]
                      ELSE j_loads_walk(F, files, i + 1, e, csv_data, log)))
             ELSE IF Suffix(file_path) = ".csv"
             THEN With(j_loads_load_csv_from_file(F, file_path), LAMBDA c :
                  With(csv_data \o Payload(c.ret), LAMBDA rows :
                      j_loads_walk(F, files, i + 1, json_data, rows, log \o c.log)))
             ELSE j_loads_walk(F, files, i + 1, json_data, csv_data, log)

\* The directory branch.
j_loads_dir(F, p, rev) ==
    With(WalkFiles(F, p, rev), LAMBDA files :
    With(j_loads_walk(F, files, 1, <<>>, <<>>, <<>>), LAMBDA w :
    With(w.json \o w.csv, LAMBDA combined_data :
        IF IsRaise(w.raised) THEN [ret |-> w.raised, log |-> w.log]
        ELSE IF combined_data # <<>> /\ \A i \in 1..Len(combined_data) : IsDict(combined_data[i])
             THEN With(merge_dicts(combined_data), LAMBDA m :
                    [ret |-> IF IsRaise(m) THEN List(combined_data) ELSE m, log |-> w.log])
        ELSE [ret |-> List(combined_data), log |-> w.log])))

\* The body of the try block.  OrderedDict is not imported by the module:
\* naming it (ordered = TRUE) raises NameError.
j_loads_try(jjson, ordered, F, rev) ==
    IF IsPath(jjson)
    THEN LET jjson_path == Payload(jjson)
         IN  IF Exists(F, jjson_path)
             THEN IF IsDir(F, jjson_path) THEN j_loads_dir(F, jjson_path, rev)
                  ELSE IF Suffix(jjson_path) = ".csv"
                       THEN j_loads_load_csv_from_file(F, jjson_path)
                  ELSE [ret |-> IF ordered THEN Raise("NameError")
                                ELSE JsonLoadFile(F, jjson_path),
                        log |-> <<>>]
             ELSE [ret |-> None, log |-> LoggerCall(<<>>, "error")]
    ELSE IF IsDict(jjson) THEN [ret |-> jjson, log |-> <<>>]
    ELSE With(clean_string(jjson), LAMBDA cleaned_str :
            [ret |-> IF IsRaise(cleaned_str) THEN cleaned_str
                     ELSE IF ordered THEN Raise("NameError")
                     ELSE JsonLoads(Payload(cleaned_str)),
             log |-> <<>>])

\* Except clauses without the last one: any other exception goes on to the
\* caller.
j_loads_except_narrow(r) ==
    IF ~IsRaise(r.ret) THEN r
    ELSE CASE Payload(r.ret) = "FileNotFoundError" ->
                [ret |-> PyFalse, log |-> LoggerCall(r.log, "error")]
           [] Payload(r.ret) = "JSONDecodeError" ->
                [ret |-> PyFalse, log |-> LoggerCall(r.log, "error")]
           [] OTHER -> r
\* The except clauses: each logs the error and returns False.
j_loads_except(r) ==
    IF ~IsRaise(r.ret) THEN r
    ELSE CASE Payload(r.ret) = "FileNotFoundError" ->
                [ret |-> PyFalse, log |-> LoggerCall(r.log, "error")]
           [] Payload(r.ret) = "JSONDecodeError" ->
                [ret |-> PyFalse, log |-> LoggerCall(r.log, "error")]
           [] OTHER ->
                [ret |-> PyFalse, log |-> LoggerCall(r.log, "error")]

j_loads(jjson, ordered, F, rev) ==
    With(j_loads_try(jjson, ordered, F, rev), LAMBDA r : j_loads_except(r))

(***************************************************************************)
(* j_loads of src/.py.                                                     *)
(***************************************************************************)
\* _load_csv_from_file of src/.py: an unreadable file is logged and gives None.
py_load_csv_from_file(F, p) ==
    With(ReadCsv(F, p), LAMBDA r :
        IF IsRaise(r) THEN [ret |-> None, log |-> LoggerCall(<<>>, "error")]
        ELSE [ret |-> r, log |-> <<>>])

\* v[1]: the second element of a list, KeyError on a dict with str keys,
\* IndexError on a one-character str, TypeError on None and numbers.
Subscript1(v) ==
    CASE Tag(v) = "list" ->
            IF Len(Payload(v)) >= 2 THEN Payload(v)[2] ELSE Raise("IndexError")
      [] Tag(v) = "dict" -> Raise("KeyError")
      [] Tag(v) = "str" -> Raise("IndexError")
      [] OTHER -> Raise("TypeError")

\* One file of the directory: j_loads(file) for a file path.
py_j_loads_file(F, p) ==
    IF Suffix(p) = ".csv" THEN py_load_csv_from_file(F, p)
    ELSE IF Suffix(p) = ".json"
    THEN With(JsonLoadFile(F, p), LAMBDA v :
            IF IsRaise(v) THEN [ret |-> None, log |-> LoggerCall(<<>>, "error")]
            ELSE [ret |-> v, log |-> <<>>])
    ELSE [ret |-> None, log |-> <<>>]

\* dict_list = [j_loads(file)[1] for file in json_files], from the i-th on.
RECURSIVE py_j_loads_list(_, _, _, _, _)
py_j_loads_list(F, files, i, acc, log) ==
    IF i > Len(files) THEN [ret |-> List(acc), log |-> log]
    ELSE With(py_j_loads_file(F, files[i]), LAMBDA one :
         With(Subscript1(one.ret), LAMBDA e :
            IF IsRaise(e) THEN [ret |-> e, log |-> log \o one.log]
            ELSE py_j_loads_list(F, files, i + 1, Append(acc, e), log \o one.log)))

\* json_path.glob("*.json"): the entries of the directory itself.
GlobJson(F, p, rev) ==
    SortPaths({q \in AllPaths : Parent(q) = p /\ Exists(F, q) /\ Suffix(q) = ".json"}, rev)

\* fix_json_string of src/.py: the replacements are bound to the loop
\* variable only, the list built from the argument keeps its elements.
fix_json_string(jjson) ==
    IF IsList(jjson) /\ Len(Payload(jjson)) = 1 THEN Payload(jjson)[1] ELSE jjson

py_j_loads_try(jjson, F, rev) ==
    IF IsPath(jjson)
    THEN LET json_path == Payload(jjson)
         IN  IF Exists(F, json_path) /\ IsDir(F, json_path)
             THEN With(GlobJson(F, json_path, rev), LAMBDA json_files :
                      IF json_files = <<>>
                      THEN [ret |-> None, log |-> LoggerCall(<<>>, "warning")]
                      ELSE With(py_j_loads_list(F, json_files, 1, <<>>, <<>>), LAMBDA l :
                               IF IsRaise(l.ret) THEN l
                               ELSE IF \A i \in 1..Len(Payload(l.ret)) : IsDict(Payload(l.ret)[i])
                                    THEN [ret |-> merge_dicts(Payload(l.ret)), log |-> l.log]
                               ELSE l))
             ELSE IF Suffix(json_path) = ".csv" THEN py_load_csv_from_file(F, json_path)
             ELSE IF Suffix(json_path) = ".json"
                  THEN [ret |-> JsonLoadFile(F, json_path), log |-> <<>>]
             ELSE [ret |-> None, log |-> <<>>]
    ELSE IF IsStr(jjson)
         THEN With(JsonLoads(AsText(jjson)), LAMBDA v :
                  IF IsRaise(v) THEN [ret |-> None, log |-> LoggerCall(<<>>, "error")]
                  ELSE [ret |-> v, log |-> <<>>])
    ELSE IF IsDict(jjson) THEN [ret |-> jjson, log |-> <<>>]
    ELSE IF IsList(jjson)
         THEN IF \A i \in 1..Len(Payload(jjson)) : IsNS(Payload(jjson)[i])
              THEN [ret |-> List([i \in 1..Len(Payload(jjson)) |->
                                    Dict(Payload(Payload(jjson)[i]))]),
                    log |-> <<>>]
              ELSE [ret |-> jjson, log |-> <<>>]
    ELSE [ret |-> None, log |-> <<>>]

\* The except clauses of src/.py: each logs the error and returns None.
py_j_loads_except(r) ==
    IF ~IsRaise(r.ret) THEN r
    ELSE [ret |-> None, log |-> LoggerCall(r.log, "error")]

py_j_loads(jjson, F, rev) ==
    With(py_j_loads_try(jjson, F, rev), LAMBDA r : py_j_loads_except(r))

(***************************************************************************)
(* j_dumps, in its two variants.                                           *)
(***************************************************************************)
AppendModes == {"a", "a+", "+a"}

\* convert_to_dict: every SimpleNamespace becomes the dict of its attributes.
RECURSIVE convert_to_dict(_)
\* A conversion of the namespace at the top only.
convert_to_dict_shallow(data) ==
    IF Tag(data) = "ns" THEN Dict(Payload(data)) ELSE data
convert_to_dict(data) ==
    CASE Tag(data) = "list" ->
            List([i \in 1..Len(Payload(data)) |-> convert_to_dict(Payload(data)[i])])
      [] Tag(data) \in {"dict", "ns"} ->
            Dict([i \in 1..Len(Payload(data)) |->
                    <<Payload(data)[i][1], convert_to_dict(Payload(data)[i][2])>>])
      [] OTHER -> data

\* target.update(other): the items of target afterwards, or the exception.
\* (A list updates a dict only if its elements are pairs; the pairs of the
\* model start with a str.)
RECURSIVE UpdateItems(_, _, _), UpdatePairs(_, _, _)
UpdateItems(items, other, i) ==
    IF i > Len(other) THEN items
    ELSE With(SetItem(items, other[i][1], other[i][2]),
              LAMBDA set : UpdateItems(set, other, i + 1))
UpdatePairs(items, elems, i) ==
    IF i > Len(elems) THEN Dict(items)
    ELSE IF Tag(elems[i]) \notin {"list", "dict", "str", "text"} THEN Raise("TypeError")
    ELSE IF ~(IsList(elems[i]) /\ Len(Payload(elems[i])) = 2) THEN Raise("ValueError")
    ELSE IF Tag(Payload(elems[i])[1]) # "str" THEN Raise("TypeError")
    ELSE With(SetItem(items, Payload(Payload(elems[i])[1]), Payload(elems[i])[2]),
              LAMBDA set : UpdatePairs(set, elems, i + 1))
DictUpdate(target, other) ==
    IF ~IsDict(target) THEN Raise("AttributeError")
    ELSE CASE Tag(other) = "dict" -> Dict(UpdateItems(Payload(target), Payload(other), 1))
           [] Tag(other) = "list" -> UpdatePairs(Payload(target), Payload(other), 1)
           [] Tag(other) \in {"str", "text"} ->
                IF AsText(other) = <<>> THEN target ELSE Raise("ValueError")
           [] OTHER -> Raise("TypeError")

\* What the except clauses of j_dumps return: nothing in src/jjson.py, the
\* exception object in src/.py.
j_dumps_on_error(variant, kind) == IF variant = "py" THEN Exc(kind) ELSE None

\* path = Path(path) if isinstance(path, (str, tuple, list)) else path
j_dumps_path(file_path) ==
    CASE Tag(file_path) = "str" -> PathV(Payload(file_path))
      [] Tag(file_path) = "list" -> Raise("TypeError")
      [] OTHER -> file_path

\* The append modes: data after the merge with the existing content.
\* dict.update returns None, and that is what data is bound to.
j_dumps_append(variant, data, path, mode, F, rev) ==
    With(IF variant = "py" THEN py_j_loads(path, F, rev)
         ELSE j_loads(path, FALSE, F, rev), LAMBDA ld :
        LET existing_data == ld.ret
        IN  IF IsRaise(existing_data) THEN [data |-> existing_data, log |-> ld.log]
            ELSE IF Truthy(existing_data)
            THEN With(IF mode = "a+" THEN DictUpdate(existing_data, data)
                      ELSE DictUpdate(data, existing_data), LAMBDA u :
                    [data |-> IF IsRaise(u) THEN u ELSE None, log |-> ld.log])
            ELSE [data |-> data, log |-> ld.log])

\* A mkdir that fails on a directory that is already there.
j_dumps_mkdir_exclusive(F, p) ==
    IF IsDir(F, p) THEN [fs |-> F, ok |-> FALSE] ELSE Mkdirs(F, p)
\* path.parent.mkdir(parents=True, exist_ok=True)
j_dumps_mkdir(F, p) == Mkdirs(F, p)

\* The write: parent directories, open("w") (which empties the file), then
\* the chunks of json.dump.
j_dumps_write(variant, data, p, F, log) ==
    With(IF Exists(F, Parent(p)) THEN [fs |-> F, ok |-> TRUE] ELSE Mkdirs(F, Parent(p)),
         LAMBDA mk :
        IF ~mk.ok
        THEN [ret |-> j_dumps_on_error(variant, "NotADirectoryError"), fs |-> F,
              log |-> LoggerCall(log, "error")]
        ELSE IF IsDir(mk.fs, p)
        THEN [ret |-> j_dumps_on_error(variant, "IsADirectoryError"), fs |-> mk.fs,
              log |-> LoggerCall(log, "error")]
        ELSE IF ~IsDir(mk.fs, Parent(p))
        THEN [ret |-> j_dumps_on_error(variant, "NotADirectoryError"), fs |-> mk.fs,
              log |-> LoggerCall(log, "error")]
        ELSE With(JsonChunks(data), LAMBDA c :
             LET G == [mk.fs EXCEPT ![p] = FileNode(c.out)]
             IN  IF c.ok THEN [ret |-> data, fs |-> G, log |-> log]
                 ELSE [ret |-> j_dumps_on_error(variant, "TypeError"), fs |-> G,
                       log |-> LoggerCall(log, "error")]))

j_dumps_body(variant, data0, file_path, mode, F, rev) ==
    With(j_dumps_path(file_path), LAMBDA path :
    With(convert_to_dict(data0), LAMBDA converted :
    With(IF mode \in AppendModes /\ ~IsRaise(path)
         THEN j_dumps_append(variant, converted, path, mode, F, rev)
         ELSE [data |-> converted, log |-> <<>>], LAMBDA app :
        IF IsRaise(path)
        THEN [ret |-> j_dumps_on_error(variant, Payload(path)), fs |-> F,
              log |-> LoggerCall(<<>>, "error")]
        ELSE IF IsRaise(app.data)
        THEN [ret |-> j_dumps_on_error(variant, Payload(app.data)), fs |-> F,
              log |-> LoggerCall(app.log, IF variant = "py" THEN "error" ELSE "warning")]
        ELSE IF IsPath(path) THEN j_dumps_write(variant, app.data, Payload(path), F, app.log)
        ELSE [ret |-> app.data, fs |-> F, log |-> app.log])))

\* j_dumps of src/jjson.py and of src/.py
j_dumps(data, file_path, mode, F, rev) == j_dumps_body("jjson", data, file_path, mode, F, rev)
py_j_dumps(data, file_path, mode, F, rev) == j_dumps_body("py", data, file_path, mode, F, rev)

(***************************************************************************)
(* replace_key_in_json: the data as the call leaves it, and whether the    *)
(* call raised KeyError on the way.                                        *)
(***************************************************************************)
RECURSIVE replace_key_in_json(_, _, _), ReplaceKeys(_, _, _, _, _), ReplaceElems(_, _, _, _)
\* for key in list(data.keys()): ... from the i-th key of the snapshot ks on
ReplaceKeys(items, ks, i, old_key, new_key) ==
    IF i > Len(ks) THEN [data |-> Dict(items), raised |-> FALSE]
    ELSE LET key == ks[i]
             popped == IF key = old_key
                       THEN SetItem(DelItem(items, old_key), new_key, GetItem(items, old_key))
                       ELSE items
         IN  IF ~HasKey(popped, key) THEN [data |-> Dict(popped), raised |-> TRUE]
             ELSE IF Tag(GetItem(popped, key)) \in {"dict", "list"}
             THEN With(replace_key_in_json(GetItem(popped, key), old_key, new_key), LAMBDA r :
                  With(SetItem(popped, key, r.data), LAMBDA set :
                      IF r.raised THEN [data |-> Dict(set), raised |-> TRUE]
                      ELSE ReplaceKeys(set, ks, i + 1, old_key, new_key)))
             ELSE ReplaceKeys(popped, ks, i + 1, old_key, new_key)
\* for item in data: ... from the i-th element on
ReplaceElems(elems, i, old_key, new_key) ==
    IF i > Len(elems) THEN [data |-> List(elems), raised |-> FALSE]
    ELSE With(replace_key_in_json(elems[i], old_key, new_key), LAMBDA r :
         With([elems EXCEPT ![i] = r.data], LAMBDA done :
            IF r.raised THEN [data |-> List(done), raised |-> TRUE]
            ELSE ReplaceElems(done, i + 1, old_key, new_key)))
replace_key_in_json(data, old_key, new_key) ==
    CASE Tag(data) = "dict" ->
            ReplaceKeys(Payload(data), KeySeq(Payload(data)), 1, old_key, new_key)
      [] Tag(data) = "list" -> ReplaceElems(Payload(data), 1, old_key, new_key)
      [] OTHER -> [data |-> data, raised |-> FALSE]

(***************************************************************************)
(* dict2ns and the three conversions back (src/convertors/dict.py,          *)
(* src/convertors/ns.py, src/src/utils/convertors/dicst2ns_ns2dict.py,      *)
(* src/convertor/dict2ns_ns2dict.py).                                       *)
(***************************************************************************)
RECURSIVE dict2ns(_)
\* dict2ns(item) if isinstance(item, dict) else item
dict2ns_item(item) == IF IsDict(item) THEN dict2ns(item) ELSE item
\* What data[key] holds after the loop body ran for value.
dict2ns_value(value) ==
    IF IsDict(value) THEN dict2ns(value)
    ELSE IF IsList(value)
    THEN List([i \in 1..Len(Payload(value)) |-> dict2ns_item(Payload(value)[i])])
    ELSE value
dict2ns(data) ==
    IF IsDict(data)
    THEN NS([i \in 1..Len(Payload(data)) |->
                <<Payload(data)[i][1], dict2ns_value(Payload(data)[i][2])>>])
    ELSE IF IsList(data)
    THEN List([i \in 1..Len(Payload(data)) |-> dict2ns_item(Payload(data)[i])])
    ELSE data
\* The argument after the call: data[key] was assigned in each mapping that
\* was converted, the sequence given keeps its elements.
dict2ns_leaves(data) ==
    IF IsDict(data) THEN Dict(Payload(dict2ns(data)))
    ELSE IF IsList(data)
    THEN List([i \in 1..Len(Payload(data)) |->
                IF IsDict(Payload(data)[i]) THEN Dict(Payload(dict2ns(Payload(data)[i])))
                ELSE Payload(data)[i]])
    ELSE data

\* ns2dict of src/convertors/ns.py: vars(ns_obj).
ns2dict(ns_obj) ==
    IF IsNS(ns_obj) THEN Dict(Payload(ns_obj)) ELSE Raise("TypeError")

\* A conversion back that stops below the first level.
utils_ns2dict_shallow(data) ==
    IF IsNS(data) THEN Dict(Payload(data)) ELSE data

\* ns2dict of src/src/utils/convertors/dicst2ns_ns2dict.py
RECURSIVE utils_ns2dict(_)
utils_ns2dict(data) ==
    IF IsNS(data)
    THEN Dict([i \in 1..Len(Payload(data)) |->
                <<Payload(data)[i][1], utils_ns2dict(Payload(data)[i][2])>>])
    ELSE IF IsList(data)
    THEN List([i \in 1..Len(Payload(data)) |-> utils_ns2dict(Payload(data)[i])])
    ELSE data

\* namespace2dict of src/convertor/dict2ns_ns2dict.py
RECURSIVE namespace2dict(_)
namespace2dict(ns) ==
    IF IsNS(ns)
    THEN Dict([i \in 1..Len(Payload(ns)) |->
                <<Payload(ns)[i][1],
                  IF IsNS(Payload(ns)[i][2]) \/ IsList(Payload(ns)[i][2])
                  THEN namespace2dict(Payload(ns)[i][2])
                  ELSE Payload(ns)[i][2]>>])
    ELSE IF IsList(ns)
    THEN List([i \in 1..Len(Payload(ns)) |->
                IF IsNS(Payload(ns)[i]) \/ IsDict(Payload(ns)[i])
                THEN namespace2dict(Payload(ns)[i])
                ELSE Payload(ns)[i]])
    ELSE ns

\* j_loads_ns of src/jjson.py.  A dict argument is the object j_loads
\* returns, so dict2ns updates the caller's dict: arg is the argument after
\* the call.
j_loads_ns(jjson, ordered, F, rev) ==
    With(j_loads(jjson, ordered, F, rev), LAMBDA ld :
        LET data == ld.ret
        IN  [ret |-> IF Truthy(data)
                     THEN IF IsList(data)
                          THEN List([i \in 1..Len(Payload(data)) |-> dict2ns(Payload(data)[i])])
                          ELSE dict2ns(data)
                     ELSE None,
             log |-> ld.log,
             arg |-> IF IsDict(jjson) /\ Truthy(data) THEN dict2ns_leaves(jjson) ELSE jjson])

\* process_json_file, of src/jjson.py and of src/.py: the filesystem and the
\* log afterwards.  Every exception is caught and logged.  Path.write_text
\* takes a str only, and raises TypeError before it opens the file.
process_json_file(variant, F, json_file, rev) ==
    With(ReadText(F, json_file), LAMBDA text :
        IF IsRaise(text) THEN [fs |-> F, log |-> LoggerCall(<<>>, "error")]
        ELSE With(IF variant = "py" THEN py_j_loads(text, F, rev)
                  ELSE j_loads(text, FALSE, F, rev), LAMBDA ld :
             With(replace_key_in_json(ld.ret, "name", "category_name"), LAMBDA r :
                IF r.raised THEN [fs |-> F, log |-> LoggerCall(ld.log, "error")]
                ELSE With(j_dumps_body(variant, r.data, None, "w", F, rev), LAMBDA d :
                        IF Tag(d.ret) \in {"str", "text"}
                        THEN [fs |-> [F EXCEPT ![json_file] = FileNode(AsText(d.ret))],
                              log |-> ld.log \o d.log]
                        ELSE [fs |-> F, log |-> LoggerCall(ld.log \o d.log, "error")]))))

\* recursive_process_json_files: for path in directory.rglob('*.json'), from
\* the i-th path on.
RECURSIVE ProcessFiles(_, _, _, _, _, _)
ProcessFiles(variant, F, paths, i, log, rev) ==
    IF i > Len(paths) THEN [fs |-> F, log |-> log]
    ELSE IF ~IsFile(F, paths[i]) THEN ProcessFiles(variant, F, paths, i + 1, log, rev)
    ELSE With(process_json_file(variant, F, paths[i], rev), LAMBDA r :
            ProcessFiles(variant, r.fs, paths, i + 1, log \o r.log, rev))
recursive_process_json_files(variant, F, directory, rev) ==
    ProcessFiles(variant, F,
                 SelectSeq(WalkFiles(F, directory, rev), LAMBDA q : Suffix(q) = ".json"),
                 1, <<>>, rev)

(***************************************************************************)
(* src/csv.py: save_csv_file, read_csv_file, json_to_csv, csv_to_json.     *)
(***************************************************************************)
\* One line of the csv writer: the cells with "," between them, and NL.
RECURSIVE CsvJoin(_, _)
CsvJoin(cells, i) ==
    IF i > Len(cells) THEN <<NL>>
    ELSE (IF i > 1 THEN <<",">> ELSE <<>>) \o <<cells[i]>> \o CsvJoin(cells, i + 1)
\* str(value), as the writer puts it in a cell
CsvStr(v) ==
    CASE Tag(v) = "num" -> NumTok(Payload(v))
      [] Tag(v) = "str" -> Payload(v)
      [] Tag(v) = "null" -> ""
      [] OTHER -> "<repr>"
\* DictWriter.writerows(data): the text written, or ValueError for a row
\* with a key that is no field name; a field the row lacks is written "".
RECURSIVE CsvWriteRows(_, _, _)
CsvWriteRows(headers, data, i) ==
    IF i > Len(data) THEN Text(<<>>)
    ELSE IF ~IsDict(data[i]) THEN Raise("AttributeError")
    ELSE IF ~(KeySet(Payload(data[i])) \subseteq Range(headers)) THEN Raise("ValueError")
    ELSE With(CsvWriteRows(headers, data, i + 1), LAMBDA rest :
            IF IsRaise(rest) THEN rest
            ELSE Text(CsvJoin([c \in 1..Len(headers) |->
                                 IF HasKey(Payload(data[i]), headers[c])
                                 THEN CsvStr(GetItem(Payload(data[i]), headers[c])) ELSE ""], 1)
                      \o Payload(rest)))

\* save_csv_file(data, file_path, mode): the header is written only if the
\* file did not exist before the call.  An exception while rows are written
\* leaves what was written before it; the rows are written from one buffer
\* here, so nothing of them.
save_csv_file(data, file_path, mode, F) ==
    With(Mkdirs(F, Parent(file_path)), LAMBDA mk :
        LET file_exists == Exists(F, file_path)
            failed(G) == [ret |-> PyFalse, fs |-> G, log |-> LoggerCall(<<>>, "error")]
        IN  IF ~mk.ok THEN failed(F)
            ELSE IF ~IsList(data) THEN failed(mk.fs)
            ELSE IF Payload(data) # <<>> /\ ~IsDict(Payload(data)[1]) THEN failed(mk.fs)
            ELSE IF IsDir(mk.fs, file_path) THEN failed(mk.fs)
            ELSE LET headers == IF Payload(data) # <<>> THEN KeySeq(Payload(Payload(data)[1]))
                                ELSE <<>>
                     before == IF mode = "w" \/ ~file_exists THEN <<>>
                               ELSE FileText(mk.fs, file_path)
                     head == IF ~file_exists /\ headers # <<>> THEN CsvJoin(headers, 1) ELSE <<>>
                 IN  With(CsvWriteRows(headers, Payload(data), 1), LAMBDA rows :
                        IF IsRaise(rows)
                        THEN failed([mk.fs EXCEPT ![file_path] = FileNode(before \o head)])
                        ELSE [ret |-> PyTrue,
                              fs |-> [mk.fs EXCEPT ![file_path] = FileNode(before \o head \o Payload(rows))],
                              log |-> <<>>]))

\* One row of csv.DictReader: the cells under the field names, every value a
\* str; a field the row lacks is None (restval), and the cells beyond the
\* field names are a list under the key None (restkey).
RestKey == "<None>"
DictReaderRow(fieldnames, cells) ==
    Dict([c \in 1..Len(fieldnames) |->
            <<fieldnames[c], IF c <= Len(cells) THEN Str(cells[c]) ELSE None>>]
         \o (IF Len(cells) > Len(fieldnames)
             THEN <<<<RestKey, List([c \in 1..(Len(cells) - Len(fieldnames)) |->
                                       Str(cells[Len(fieldnames) + c])])>>>>
             ELSE <<>>))
\* read_csv_file: list(csv.DictReader(file)); the first line is the header.
read_csv_file(file_path, F) ==
    With(ReadText(F, file_path), LAMBDA t :
        IF IsRaise(t) THEN [ret |-> None, log |-> LoggerCall(<<>>, "error")]
        ELSE With(CsvLines(Payload(t), 1), LAMBDA lines :
                [ret |-> IF lines = <<>> THEN EmptyList
                         ELSE List([r \in 1..(Len(lines) - 1) |->
                                 DictReaderRow(lines[1], lines[r + 1])]),
                 log |-> <<>>]))

\* json_to_csv: save_csv_file with mode='w'
json_to_csv(json_data, csv_file_path, F) == save_csv_file(json_data, csv_file_path, "w", F)

\* csv_to_json: the rows read, also dumped to json_file_path (the white
\* space of indent=4 is left out of the text).
csv_to_json(csv_file_path, json_file_path, F) ==
    With(read_csv_file(csv_file_path, F), LAMBDA rd :
        IF rd.ret = None THEN [ret |-> None, fs |-> F, log |-> rd.log]
        ELSE IF IsDir(F, json_file_path) \/ ~IsDir(F, Parent(json_file_path))
        THEN [ret |-> None, fs |-> F, log |-> LoggerCall(rd.log, "error")]
        ELSE [ret |-> rd.ret,
              fs |-> [F EXCEPT ![json_file_path] = FileNode(JsonChunks(rd.ret).out)],
              log |-> rd.log])

(***************************************************************************)
(* read_text_file, of src/file.py and of src/src/utils/file.py.  A line is  *)
(* the text up to and with its NL; the last line may have none.            *)
(***************************************************************************)
\* for line in f: the lines of toks from token i on, cur being the line read
\* so far.
RECURSIVE FileLines(_, _, _)
FileLines(toks, i, cur) ==
    IF i > Len(toks) THEN (IF cur = <<>> THEN <<>> ELSE <<cur>>)
    ELSE IF toks[i] = NL THEN <<Append(cur, NL)>> \o FileLines(toks, i + 1, <<>>)
    ELSE FileLines(toks, i + 1, Append(cur, toks[i]))
\* [line.strip() for line in f]
StrippedLines(toks) ==
    With(FileLines(toks, 1, <<>>), LAMBDA lines :
        [i \in 1..Len(lines) |-> Text(StripRight(StripLeft(lines[i])))])
\* "\n".join(content), from the i-th text on
RECURSIVE JoinLines(_, _)
JoinLines(content, i) ==
    IF i > Len(content) THEN <<>>
    ELSE Payload(content[i]) \o (IF i < Len(content) THEN <<NL>> ELSE <<>>)
         \o JoinLines(content, i + 1)

\* The directory branch of read_text_file of src/file.py (extensions is
\* None): for file in path.iterdir(), from the i-th file on.
RECURSIVE ReadDirFiles(_, _, _, _, _)
ReadDirFiles(F, files, i, as_list, content) ==
    IF i > Len(files) THEN content
    ELSE With(ReadText(F, files[i]), LAMBDA t :
            IF IsRaise(t) THEN t
            ELSE ReadDirFiles(F, files, i + 1, as_list,
                              IF as_list THEN content \o StrippedLines(Payload(t))
                              ELSE Append(content, t)))

\* read_text_file of src/file.py
read_text_file(F, file_path, as_list, rev) ==
    IF IsFile(F, file_path)
    THEN With(ReadText(F, file_path), LAMBDA t :
            IF IsRaise(t) THEN [ret |-> None, log |-> LoggerCall(<<>>, "error")]
            ELSE With(StrippedLines(Payload(t)), LAMBDA lines :
                    IF lines = <<>> THEN [ret |-> None, log |-> LoggerCall(<<>>, "error")]
                    ELSE [ret |-> lines[1], log |-> <<>>]))
    ELSE IF IsDir(F, file_path)
    THEN With(ReadDirFiles(F, ChildFiles(F, file_path, rev), 1, as_list, <<>>), LAMBDA content :
            IF IsRaise(content) THEN [ret |-> None, log |-> LoggerCall(<<>>, "error")]
            ELSE [ret |-> IF as_list THEN List(content) ELSE Text(JoinLines(content, 1)),
                  log |-> <<>>])
    ELSE [ret |-> None, log |-> LoggerCall(<<>>, "warning")]

\* read_text_file of src/src/utils/file.py
utils_read_text_file(F, file_path, get_list) ==
    IF IsFile(F, file_path)
    THEN With(ReadText(F, file_path), LAMBDA t :
            IF IsRaise(t) THEN [ret |-> None, log |-> LoggerCall(<<>>, "error")]
            ELSE [ret |-> IF get_list THEN List(StrippedLines(Payload(t))) ELSE t,
                  log |-> <<>>])
    ELSE [ret |-> None, log |-> LoggerCall(<<>>, "warning")]

(***************************************************************************)
(* The inputs of the model.                                                *)
(***************************************************************************)
D1(k, v) == Dict(<< <<k, v>> >>)
D2(k1, v1, k2, v2) == Dict(<< <<k1, v1>>, <<k2, v2>> >>)
L1(v) == List(<<v>>)
L2(v, w) == List(<<v, w>>)

\* Texts of files and strings.
TextA1 == <<"{", Quote("a"), ":", WS, "1", "}">>               \* {"a": 1}
TextA2 == <<"{", Quote("a"), ":", WS, "2", "}">>               \* {"a": 2}
TextB2 == <<"{", Quote("b"), ":", WS, "2", "}">>               \* {"b": 2}
TextCut == <<"{", Quote("a"), ":", WS, "1">>                   \* {"a": 1
TextList == <<"[", "1", ",", WS, "2", "]">>                    \* [1, 2]
TextDicts == <<"[", "{", Quote("a"), ":", "1", "}", "]">>      \* [{"a":1}]
TextNum == <<"1">>
TextNull == <<"null">>
TextEmpty == <<>>
TextBad == <<BadByte, "{">>
TextPadded == <<WS, "{", Quote("a"), ":", "1", ",", NL, Quote("a"), ":", "2", "}", NL>>
\* A JSON document between the lines of a Markdown code fence, and one
\* whose string literals have their quotes escaped.
FenceOpen == "<fence json>"
FenceClose == "<fence>"
OverQuote(s) == "\\" \o Quote(s)
TextFenced == <<FenceOpen, NL, "{", Quote("a"), ":", WS, "1", "}", NL, FenceClose>>
TextOverEscaped == <<"{", OverQuote("a"), ":", WS, "1", "}">>
TextScenario1 ==                                                \* {"a": 1, "b": [1,2]}
    <<"{", Quote("a"), ":", WS, "1", ",", WS, Quote("b"), ":", WS, "[", "1", ",", "2", "]", "}">>
CsvHeader == <<"a", ",", "b", NL>>
CsvRow1 == <<"1", ",", "x", NL>>
CsvRow2 == <<"2", ",", "y", NL>>

BaseFs ==
    [p \in AllPaths |->
        CASE p \in {"d", "d/sub"} -> DirNode
          [] p = "d/x.json" -> FileNode(TextA1)
          [] p = "d/y.json" -> FileNode(TextB2)
          [] p = "d/sub/z.json" -> FileNode(TextA2)
          [] p = "t.csv" -> FileNode(CsvHeader \o CsvRow1)
          [] OTHER -> Absent]

\* What the destination of a dump may hold beforehand.
DumpInitFs ==
    {BaseFs} \cup
    {[BaseFs EXCEPT !["f.json"] = FileNode(t)] :
        t \in {TextA1, TextCut, TextList, TextEmpty, TextNull, TextNum}}

\* What a load may find.
LoadInitFs ==
    {[BaseFs EXCEPT !["f.json"] = FileNode(t)] :
        t \in {TextA1, TextCut, TextList, TextEmpty, TextBad, TextPadded, TextScenario1}}
    \cup {[BaseFs EXCEPT !["d/x.json"] = FileNode(t), !["d/y.json"] = FileNode(u),
                         !["d/sub/z.json"] = z] :
            t \in {TextA1, TextList, TextNum, TextDicts, TextCut},
            u \in {TextB2, TextA2, TextDicts},
            z \in {Absent, FileNode(TextA2)}}
    \cup {[BaseFs EXCEPT !["d/x.json"] = FileNode(CsvHeader \o CsvRow1),
                         !["d/y.json"] = Absent, !["d/sub/z.json"] = Absent]}
    \cup {[BaseFs EXCEPT !["t.csv"] = FileNode(t)] :
            t \in {TextEmpty, CsvHeader, CsvHeader \o CsvRow1 \o CsvRow2, TextBad}}

Modes == {"w", "a", "a+", "+a"}
DumpData ==
    { D1("b", Num(2)), L1(Num(1)), D2("a", Num(1), "b", Obj("set")),
      NS(<< <<"b", NS(<< <<"a", Num(1)>> >>)>> >>), EmptyDict }
\* Values of every JSON type, for dumps without an append.
JsonData ==
    { None, PyTrue, Num(1), Str("x"), EmptyList, L2(Num(1), Str("x")),
      D2("a", L1(D1("b", None)), "b", D1("a", PyFalse)), Obj("set") }
\* Namespaces at the top, in a sequence, in a mapping and in a namespace.
NamespaceData ==
    { NS(<< <<"a", Num(1)>> >>),
      L2(NS(<< <<"a", Num(1)>> >>), Num(2)),
      D1("a", NS(<< <<"b", L1(NS(<< <<"a", Str("x")>> >>))>> >>)),
      NS(<< <<"a", D1("b", NS(<<>>))>>, <<"b", NS(<< <<"a", None>> >>)>> >>) }
DumpPaths ==
    { None, PathV("f.json"), Str("f.json"), PathV("n/g.json"), PathV("d"),
      PathV("t.csv/k"), PathV("t.csv/k/g.json") }
DumpCalls ==
    (DumpData \X {None, PathV("f.json")} \X Modes)
    \cup (DumpData \X DumpPaths \X {"w", "a"})
    \cup (JsonData \X {None, PathV("f.json")} \X {"w"})
    \cup (NamespaceData \X {None, PathV("f.json")} \X {"w"})
    \cup ({D1("b", Num(2))} \X {None, PathV("f.json")} \X {"x"})

LoadArgs ==
    {PathV(p) : p \in {"f.json", "d", "d/sub", "t.csv", "gone.json"}}
    \cup { EmptyDict, D1("a", Num(1)), EmptyList, L1(Num(1)), L1(NS(<< <<"a", Num(1)>> >>)),
           Text(TextScenario1), Text(TextCut), Text(TextEmpty), Text(<<WS, NL>>),
           Text(TextPadded), Text(TextList), Text(TextFenced), Text(TextOverEscaped),
           Str("x"), Num(1), None,
           NS(<< <<"a", Num(1)>> >>),
           Text(<<"{", "}">>), Text(<<"[", "]">>), Text(TextDicts),
           D1("a", D1("b", L1(D1("a", Num(1))))) }

MergeA == {Num(2), D1("x", Num(1)), D1("x", Num(2)), L1(Num(1))}
MergeB == {L1(Num(1)), L1(Num(2)), Num(1)}
MergePool ==
    {EmptyDict} \cup {D1("a", v) : v \in MergeA} \cup {D1("b", w) : w \in MergeB}
    \cup {D2("a", v, "b", w) : v \in MergeA, w \in MergeB}
    \cup {D2("b", L1(Num(2)), "a", D1("x", L1(Num(1))))}
MergeInputs == UNION {[1..n -> MergePool] : n \in 0..MaxMerge}

\* Arguments of dict2ns: mappings with identifier keys, sequences, scalars.
NsScalars == {Num(1), Str("x"), None}
NsFlat == {EmptyDict, D1("a", Num(1)), D2("a", Num(1), "b", Str("x"))}
NsSeqs ==
    {EmptyList, L1(Num(1))}
    \cup {L1(d) : d \in NsFlat} \cup {L2(Num(1), d) : d \in NsFlat}
    \cup {L1(L1(d)) : d \in NsFlat}
NsMaps ==
    NsFlat \cup {D1("a", d) : d \in NsFlat} \cup {D1("b", l) : l \in NsSeqs}
    \cup {D2("a", D1("b", d), "b", L1(d)) : d \in NsFlat}
NsInputs == NsMaps \cup NsSeqs \cup NsScalars
Ns2DictVariants == {"convertors/ns.py", "convertors/dicst2ns_ns2dict.py",
                    "convertor/dict2ns_ns2dict.py"}

\* Two j_dumps calls at a time, on destinations that differ: in one
\* directory that exists, in one that does not, and in different ones.
ThreadData == {D1("b", Num(2)), D2("a", Num(1), "b", Obj("set")), NS(<< <<"a", L1(Num(1))>> >>)}
ThreadPaths == {"f.json", "n/g.json", "n/h.json", "d/x.json"}
ThreadModes == {"w", "a", "a+"}
ThreadFs == {BaseFs, [BaseFs EXCEPT !["f.json"] = FileNode(TextA1)]}
ThreadCall(data, p, mode) ==
    [pc |-> "convert", data |-> data, path |-> p, mode |-> mode, arg |-> data]

\* JSON files to process: with the key "name" at the top, nested, in a list,
\* without it, a str, and a text that is no JSON.
TextName == <<"{", Quote("name"), ":", WS, Quote("x"), "}">>
TextNameNested == <<"{", Quote("other"), ":", WS, "{", Quote("name"), ":", WS, "1", "}", "}">>
TextNameInList == <<"[", "{", Quote("name"), ":", WS, "1", "}", "]">>
ProcessTexts == {TextName, TextNameNested, TextNameInList, TextA1, <<Quote("x")>>, TextCut}
ProcessFs ==
    {[BaseFs EXCEPT !["f.json"] = FileNode(t), !["d/x.json"] = FileNode(u),
                    !["d/sub/z.json"] = FileNode(w)] :
        t \in ProcessTexts, u \in ProcessTexts, w \in {TextName, TextA1}}
ProcessCalls ==
    ({"process_json_file"} \X {"f.json", "d/x.json", "gone.json"} \X {"jjson", "py"})
    \cup ({"recursive_process_json_files"} \X {"d"} \X {"jjson", "py"})

\* Text files to read: three lines, lines with white space around them and
\* an NL at the end, one line, no line, and bytes that are not UTF-8.
TextLines == <<"Line 1", NL, "Line 2", NL, "Line 3">>
TextLinesPadded == <<WS, "Line 1", WS, NL, "Line 2", NL>>
ReadTexts == {TextLines, TextLinesPadded, <<"Line 1">>, TextEmpty, TextBad, TextA1}
ReadFs == {[BaseFs EXCEPT !["f.json"] = FileNode(t)] : t \in ReadTexts}
ReadPaths == {"f.json", "gone.json", "d", "d/x.json"}
ReadModules == {"file.py", "utils/file.py"}

\* Rows to save as CSV, and where.
CsvRow(a, b) == D2("a", Str(a), "b", Str(b))
CsvData ==
    { EmptyList, L1(CsvRow("x", "y")), L2(CsvRow("x", "y"), CsvRow("y", "x")),
      L2(D1("a", Str("x")), D1("a", Str("y"))), L1(D2("a", Num(1), "b", Str("x"))),
      L2(D1("a", Str("x")), D1("b", Str("y"))), L1(Num(1)) }
CsvPaths == {"t.csv", "n/g.json", "t.csv/k"}
CsvFs == {BaseFs, [BaseFs EXCEPT !["t.csv"] = Absent]}

RenameKeys == {"name", "other", "category_name"}
RenameFlat ==
    {EmptyDict} \cup {D1(k, Str("x")) : k \in RenameKeys}
    \cup {D2(kk[1], Str("x"), kk[2], Str("y")) :
            kk \in {q \in RenameKeys \X RenameKeys : q[1] # q[2]}}
RenameData ==
    RenameFlat \cup {D1(k, d) : k \in RenameKeys, d \in RenameFlat}
    \cup {L1(d) : d \in RenameFlat}
    \cup {D1("a", L1(d)) : d \in RenameFlat}
    \cup {L2(D1("name", Str("x")), D1("other", d)) : d \in RenameFlat}
    \cup {Str("x"), EmptyList}
RenamePairs == {<<"name", "category_name">>, <<"name", "name">>, <<"other", "name">>}

(***************************************************************************)
(* The state machine.                                                      *)
(***************************************************************************)
Pending == <<"pending", "">>
Call(op, data, path, mode, ordered, from) ==
    [op |-> op, data |-> data, path |-> path, mode |-> mode, ordered |-> ordered,
     from |-> from]
NoCall == Call("none", None, None, "", FALSE, "")

\* A session of dumps: the filesystem is given, no call was made.
InitDump ==
    /\ fs \in DumpInitFs
    /\ pre = fs
    /\ call = NoCall
    /\ ret = None
    /\ obj = None
    /\ logged = <<>>
    /\ calls = 0
    /\ threads = <<>>

\* A call of one function on given arguments, about to be made.
InitCall(F, c) ==
    /\ fs = F
    /\ pre = F
    /\ call = c
    /\ ret = Pending
    /\ obj = c.data
    /\ logged = <<>>
    /\ calls = 0
    /\ threads = <<>>
InitLoad ==
    \E F \in LoadInitFs, a \in LoadArgs, o \in BOOLEAN,
       v \in {"j_loads", "py_j_loads", "j_loads_ns"} :
        InitCall(F, Call(v, a, None, "", o, "caller"))
InitMerge ==
    \E l \in MergeInputs : InitCall(BaseFs, Call("merge_dicts", List(l), None, "", FALSE, "caller"))
InitRename ==
    \E d \in RenameData, kk \in RenamePairs :
        InitCall(BaseFs, Call("replace_key_in_json", d, None, kk[1], FALSE, kk[2]))
InitNs ==
    \E d \in NsInputs : InitCall(BaseFs, Call("dict2ns", d, None, "", FALSE, "caller"))
\* Two callers are about to call j_dumps, each with a destination of its own.
InitThreads ==
    /\ fs \in ThreadFs
    /\ pre = fs
    /\ call = Call("j_dumps", None, None, "", FALSE, "threads")
    /\ ret = <<Pending, Pending>>
    /\ obj = None
    /\ logged = <<>>
    /\ calls = 0
    /\ \E p1 \in ThreadPaths, p2 \in ThreadPaths,
          d1 \in ThreadData, d2 \in ThreadData, m1 \in ThreadModes, m2 \in ThreadModes :
          /\ p1 # p2
          /\ threads = <<ThreadCall(d1, p1, m1), ThreadCall(d2, p2, m2)>>
InitProcess ==
    \E F \in ProcessFs, c \in ProcessCalls :
        InitCall(F, Call(c[1], PathV(c[2]), None, c[3], FALSE, "caller"))
\* A session of CSV calls: the filesystem is given, no call was made.
InitCsv ==
    /\ fs \in CsvFs
    /\ pre = fs
    /\ call = Call("none", None, None, "", FALSE, "csv")
    /\ ret = None
    /\ obj = None
    /\ logged = <<>>
    /\ calls = 0
    /\ threads = <<>>

\* read_text_file(file_path, as_list) is about to be called.
InitRead ==
    \E F \in ReadFs, p \in ReadPaths, m \in ReadModules, as_list \in BOOLEAN :
        InitCall(F, Call("read_text_file", PathV(p), None, m, FALSE, "caller")
                    @@ [as_list |-> as_list])
Init ==
    \/ InitDump \/ InitLoad \/ InitMerge \/ InitRename \/ InitNs \/ InitThreads
    \/ InitProcess \/ InitRead \/ InitCsv

Dumped(op, c, r) ==
    /\ fs' = r.fs
    /\ pre' = fs
    /\ call' = Call(op, c[1], c[2], c[3], FALSE, "caller")
    /\ ret' = r.ret
    /\ obj' = c[1]
    /\ logged' = r.log
    /\ calls' = calls + 1
    /\ UNCHANGED threads

\* j_dumps(data, file_path, mode=mode) of src/jjson.py
JDumps ==
    /\ call.op \in {"none", "j_dumps", "py_j_dumps"}
    /\ calls < MaxCalls
    /\ \E c \in DumpCalls, rev \in BOOLEAN :
          \E r \in {j_dumps(c[1], c[2], c[3], fs, rev)} : Dumped("j_dumps", c, r)

\* j_dumps(data, file_path, mode=mode) of src/.py
PyJDumps ==
    /\ call.op \in {"none", "j_dumps", "py_j_dumps"}
    /\ calls < MaxCalls
    /\ \E c \in DumpCalls, rev \in BOOLEAN :
          \E r \in {py_j_dumps(c[1], c[2], c[3], fs, rev)} : Dumped("py_j_dumps", c, r)

\* j_loads (src/jjson.py) of what the last j_dumps returned, or of the path
\* it wrote to.
JLoadsBack ==
    /\ call.op = "j_dumps"
    /\ \E from \in {"ret", "path"}, rev \in BOOLEAN :
          /\ from = "path" => IsPath(j_dumps_path(call.path))
          /\ \E arg \in {IF from = "ret" THEN ret ELSE j_dumps_path(call.path)} :
             \E r \in {j_loads(arg, FALSE, fs, rev)} :
                 /\ call' = Call("j_loads", arg, call.path, call.mode, FALSE, from)
                 /\ ret' = r.ret
                 /\ logged' = r.log
                 /\ pre' = fs
                 /\ calls' = calls + 1
                 /\ UNCHANGED <<threads, fs, obj>>

\* j_loads(jjson, ordered) of src/jjson.py
JLoads ==
    /\ call.op = "j_loads" /\ ret = Pending
    /\ \E rev \in BOOLEAN :
          \E r \in {j_loads(call.data, call.ordered, fs, rev)} :
              /\ ret' = r.ret
              /\ logged' = r.log
              /\ calls' = calls + 1
              /\ UNCHANGED <<threads, fs, pre, call, obj>>

\* j_loads(jjson) of src/.py
PyJLoads ==
    /\ call.op = "py_j_loads" /\ ret = Pending
    /\ \E rev \in BOOLEAN :
          \E r \in {py_j_loads(call.data, fs, rev)} :
              /\ ret' = r.ret
              /\ logged' = r.log
              /\ calls' = calls + 1
              /\ UNCHANGED <<threads, fs, pre, call, obj>>

\* j_loads_ns(jjson, ordered) of src/jjson.py
JLoadsNs ==
    /\ call.op = "j_loads_ns" /\ ret = Pending
    /\ \E rev \in BOOLEAN :
          \E r \in {j_loads_ns(call.data, call.ordered, fs, rev)} :
              /\ ret' = r.ret
              /\ logged' = r.log
              /\ obj' = r.arg
              /\ calls' = calls + 1
              /\ UNCHANGED <<threads, fs, pre, call>>

\* process_json_file(json_file) of the module call.mode names
ProcessJsonFile ==
    /\ call.op = "process_json_file" /\ ret = Pending
    /\ \E rev \in BOOLEAN :
          \E r \in {process_json_file(call.mode, fs, Payload(call.data), rev)} :
              /\ fs' = r.fs
              /\ logged' = r.log
    /\ ret' = None
    /\ calls' = calls + 1
    /\ UNCHANGED <<threads, pre, call, obj>>

\* recursive_process_json_files(directory) of the module call.mode names
RecursiveProcessJsonFiles ==
    /\ call.op = "recursive_process_json_files" /\ ret = Pending
    /\ \E rev \in BOOLEAN :
          \E r \in {recursive_process_json_files(call.mode, fs, Payload(call.data), rev)} :
              /\ fs' = r.fs
              /\ logged' = r.log
    /\ ret' = None
    /\ calls' = calls + 1
    /\ UNCHANGED <<threads, pre, call, obj>>

\* read_text_file(file_path, as_list) of the module call.mode names
ReadTextFile ==
    /\ call.op = "read_text_file" /\ ret = Pending
    /\ \E rev \in BOOLEAN :
          \E r \in {IF call.mode = "file.py"
                     THEN read_text_file(fs, Payload(call.data), call.as_list, rev)
                     ELSE utils_read_text_file(fs, Payload(call.data), call.as_list)} :
              /\ ret' = r.ret
              /\ logged' = r.log
    /\ calls' = calls + 1
    /\ UNCHANGED <<threads, fs, pre, call, obj>>

\* A write to a CSV file was made, with result r.
CsvSaved(op, data, p, mode, r) ==
    /\ fs' = r.fs
    /\ pre' = fs
    /\ call' = Call(op, data, PathV(p), mode, FALSE, "csv")
    /\ ret' = r.ret
    /\ logged' = r.log
    /\ calls' = calls + 1
    /\ UNCHANGED <<threads, obj>>

\* save_csv_file(data, file_path, mode)
SaveCsvFile ==
    /\ call.op = "none" /\ call.from = "csv"
    /\ \E data \in CsvData, p \in CsvPaths, mode \in {"a", "w"} :
          \E r \in {save_csv_file(data, p, mode, fs)} : CsvSaved("save_csv_file", data, p, mode, r)

\* json_to_csv(json_data, csv_file_path), first or after a save_csv_file
JsonToCsv ==
    /\ call.op \in {"none", "save_csv_file"} /\ call.from = "csv"
    /\ \E data \in CsvData, p \in CsvPaths :
          /\ call.op = "save_csv_file" => call.path = PathV(p)
          /\ \E r \in {json_to_csv(data, p, fs)} : CsvSaved("json_to_csv", data, p, "w", r)

\* read_csv_file(file_path) of the file the last call wrote; pre stays the
\* filesystem before that write.
ReadCsvFile ==
    /\ call.op \in {"save_csv_file", "json_to_csv"}
    /\ \E r \in {read_csv_file(Payload(call.path), fs)} :
          /\ ret' = r.ret
          /\ logged' = r.log
    /\ call' = Call("read_csv_file", call.data, call.path, call.mode, FALSE,
                     IF ret = PyTrue THEN call.op ELSE "failed")
    /\ calls' = calls + 1
    /\ UNCHANGED <<threads, fs, pre, obj>>

\* csv_to_json(csv_file_path, "f.json") of the file the last call wrote; pre
\* stays the filesystem before that write.
CsvToJson ==
    /\ call.op \in {"save_csv_file", "json_to_csv"}
    /\ \E r \in {csv_to_json(Payload(call.path), "f.json", fs)} :
          /\ ret' = r.ret
          /\ fs' = r.fs
          /\ logged' = r.log
    /\ call' = Call("csv_to_json", call.data, call.path, call.mode, FALSE,
                     IF ret = PyTrue THEN call.op ELSE "failed")
    /\ calls' = calls + 1
    /\ UNCHANGED <<threads, pre, obj>>

\* merge_dicts(dict_list): the first mapping is updated in place and returned;
\* obj is the list after the call.
MergeDicts ==
    /\ call.op = "merge_dicts" /\ ret = Pending
    /\ ret' = merge_dicts(Payload(call.data))
    /\ obj' = IF IsRaise(ret') THEN call.data
              ELSE List(merge_dicts_list(Payload(call.data)))
    /\ calls' = calls + 1
    /\ UNCHANGED <<threads, fs, pre, call, logged>>

\* replace_key_in_json(data, old_key, new_key): data is updated in place.
\* The call is made on the structure as the call before left it.
ReplaceKeyInJson ==
    /\ call.op = "replace_key_in_json" /\ calls < MaxRenames
    /\ call' = [call EXCEPT !.data = obj]
    /\ \E r \in {replace_key_in_json(obj, call.mode, call.from)} :
           /\ ret' = IF r.raised THEN Raise("KeyError") ELSE None
           /\ obj' = r.data
    /\ calls' = calls + 1
    /\ UNCHANGED <<threads, fs, pre, logged>>

\* dict2ns(data): the mappings of data are updated in place.
Dict2Ns ==
    /\ call.op = "dict2ns" /\ ret = Pending
    /\ ret' = dict2ns(call.data)
    /\ obj' = dict2ns_leaves(call.data)
    /\ calls' = calls + 1
    /\ UNCHANGED <<threads, fs, pre, call, logged>>

\* One of the conversions back, applied to what dict2ns(data) returned.
Ns2Dict ==
    /\ call.op = "dict2ns" /\ ret # Pending
    /\ \E variant \in Ns2DictVariants :
          /\ call' = Call("ns2dict", call.data, None, variant, FALSE, "dict2ns")
          /\ ret' = CASE variant = "convertors/ns.py" -> ns2dict(ret)
                      [] variant = "convertors/dicst2ns_ns2dict.py" -> utils_ns2dict(ret)
                      [] OTHER -> namespace2dict(ret)
    /\ calls' = calls + 1
    /\ UNCHANGED <<threads, fs, pre, obj, logged>>

(***************************************************************************)
(* j_dumps of src/jjson.py step by step, for calls that run concurrently:  *)
(* each access to the filesystem is a step of its own.                     *)
(***************************************************************************)
\* Thread t goes on to position pc with data d; its call returns r if the
\* position is "done".
ThreadStep(t, pc, d, r) ==
    /\ threads' = [threads EXCEPT ![t].pc = pc, ![t].data = d]
    /\ ret' = IF pc = "done" THEN [ret EXCEPT ![t] = r] ELSE ret
    /\ UNCHANGED <<pre, call, obj, logged, calls>>

\* data = convert_to_dict(data)
DumpConvert(t) ==
    /\ threads[t].pc = "convert"
    /\ ThreadStep(t, IF threads[t].mode \in AppendModes THEN "read" ELSE "exists",
                  convert_to_dict(threads[t].data), None)
    /\ UNCHANGED fs

\* existing_data = j_loads(path) and the update of the append modes
DumpRead(t) ==
    /\ threads[t].pc = "read"
    /\ \E rev \in BOOLEAN :
          \E app \in {j_dumps_append("jjson", threads[t].data, PathV(threads[t].path),
                                      threads[t].mode, fs, rev)} :
              IF IsRaise(app.data) THEN ThreadStep(t, "done", threads[t].data, None)
              ELSE ThreadStep(t, "exists", app.data, None)
    /\ UNCHANGED fs

\* if not path.parent.exists():
DumpExists(t) ==
    /\ threads[t].pc = "exists"
    /\ ThreadStep(t, IF Exists(fs, Parent(threads[t].path)) THEN "open" ELSE "mkdir",
                  threads[t].data, None)
    /\ UNCHANGED fs

\* path.parent.mkdir(parents=True, exist_ok=True)
DumpMkdir(t) ==
    /\ threads[t].pc = "mkdir"
    /\ \E mk \in {j_dumps_mkdir(fs, Parent(threads[t].path))} :
          IF mk.ok THEN fs' = mk.fs /\ ThreadStep(t, "open", threads[t].data, None)
          ELSE UNCHANGED fs /\ ThreadStep(t, "done", threads[t].data, None)

\* with path.open("w", encoding="utf-8") as f:
DumpOpen(t) ==
    /\ threads[t].pc = "open"
    /\ IF IsDir(fs, threads[t].path) \/ ~IsDir(fs, Parent(threads[t].path))
       THEN UNCHANGED fs /\ ThreadStep(t, "done", threads[t].data, None)
       ELSE /\ fs' = [fs EXCEPT ![threads[t].path] = FileNode(<<>>)]
            /\ ThreadStep(t, "dump", threads[t].data, None)

\* json.dump(data, f, ensure_ascii=ensure_ascii), and return data
DumpWrite(t) ==
    /\ threads[t].pc = "dump"
    /\ \E c \in {JsonChunks(threads[t].data)} :
          /\ fs' = [fs EXCEPT ![threads[t].path] = FileNode(c.out)]
          /\ ThreadStep(t, "done", threads[t].data, IF c.ok THEN threads[t].data ELSE None)

Convert == \E t \in DOMAIN threads : DumpConvert(t)
Read == \E t \in DOMAIN threads : DumpRead(t)
ParentExists == \E t \in DOMAIN threads : DumpExists(t)
Mkdir == \E t \in DOMAIN threads : DumpMkdir(t)
Open == \E t \in DOMAIN threads : DumpOpen(t)
Write == \E t \in DOMAIN threads : DumpWrite(t)

Next ==
    \/ JDumps \/ PyJDumps \/ JLoadsBack \/ JLoads \/ PyJLoads \/ JLoadsNs \/ MergeDicts
    \/ ReplaceKeyInJson \/ Dict2Ns \/ Ns2Dict
    \/ Convert \/ Read \/ ParentExists \/ Mkdir \/ Open \/ Write
    \/ ProcessJsonFile \/ RecursiveProcessJsonFiles \/ ReadTextFile
    \/ SaveCsvFile \/ JsonToCsv \/ ReadCsvFile \/ CsvToJson
Spec == Init /\ [][Next]_vars

NextDump == JDumps \/ PyJDumps \/ JLoadsBack
SpecDump == InitDump /\ [][NextDump]_vars
NextLoad == JLoads \/ PyJLoads \/ JLoadsNs
SpecLoad == InitLoad /\ [][NextLoad]_vars
NextMerge == MergeDicts
SpecMerge == InitMerge /\ [][NextMerge]_vars
NextRename == ReplaceKeyInJson
SpecRename == InitRename /\ [][NextRename]_vars
NextNs == Dict2Ns \/ Ns2Dict
SpecNs == InitNs /\ [][NextNs]_vars
NextThreads == Convert \/ Read \/ ParentExists \/ Mkdir \/ Open \/ Write
SpecThreads == InitThreads /\ [][NextThreads]_vars
NextProcess == ProcessJsonFile \/ RecursiveProcessJsonFiles
SpecProcess == InitProcess /\ [][NextProcess]_vars
NextRead == ReadTextFile
SpecRead == InitRead /\ [][NextRead]_vars
NextCsv == SaveCsvFile \/ JsonToCsv \/ ReadCsvFile \/ CsvToJson
SpecCsv == InitCsv /\ [][NextCsv]_vars

(***************************************************************************)
(* The properties.                                                         *)
(***************************************************************************)
\* The path a dump writes to, when it has one.
DumpHasPath == IsPath(j_dumps_path(call.path))
DumpPath == Payload(j_dumps_path(call.path))

\* A value built only from null, booleans, numbers, strings, sequences and
\* mappings.
RECURSIVE JsonRepresentable(_)
JsonRepresentable(v) ==
    CASE Tag(v) = "list" -> \A i \in 1..Len(Payload(v)) : JsonRepresentable(Payload(v)[i])
      [] Tag(v) = "dict" -> \A i \in 1..Len(Payload(v)) : JsonRepresentable(Payload(v)[i][2])
      [] Tag(v) \in {"null", "bool", "num", "str"} -> TRUE
      [] OTHER -> FALSE

\* C1: after j_dumps(new, path, mode = "a") on a file that holds a non-empty
\* mapping E, the file holds a mapping with every key of E and every key of
\* new.
C1_AppendKeepsBothKeySets ==
    ( /\ call.op \in {"j_dumps", "py_j_dumps"}
      /\ call.mode = "a"
      /\ IsDict(call.data) /\ JsonRepresentable(call.data)
      /\ DumpHasPath
      /\ IsFile(pre, DumpPath)
      /\ IsDict(JsonLoadFile(pre, DumpPath))
      /\ JsonLoadFile(pre, DumpPath) # EmptyDict )
    => /\ IsFile(fs, DumpPath)
       /\ IsDict(JsonLoadFile(fs, DumpPath))
       /\ KeySet(Payload(JsonLoadFile(pre, DumpPath))) \cup KeySet(Payload(call.data))
            \subseteq KeySet(Payload(JsonLoadFile(fs, DumpPath)))

\* C2: a dump in an append mode to a file that does not parse returns nothing
\* and leaves the file, and the rest of the filesystem, as it was.
C2_UnparsableDestinationKept ==
    ( /\ call.op = "j_dumps"
      /\ call.mode \in AppendModes
      /\ DumpHasPath
      /\ IsFile(pre, DumpPath)
      /\ IsRaise(JsonLoadFile(pre, DumpPath)) )
    => (ret = None /\ fs = pre)

\* The rule of the merge for one later mapping: a and b are the items of the
\* result so far and of the later mapping.
RECURSIVE MergeRule(_, _)
MergeRule(a, b) ==
    [i \in 1..Len(a) |->
        IF ~HasKey(b, a[i][1]) THEN a[i]
        ELSE LET m == a[i][2]
                 v == GetItem(b, a[i][1])
             IN  <<a[i][1],
                   IF IsDict(m) /\ IsDict(v) THEN Dict(MergeRule(Payload(m), Payload(v)))
                   ELSE IF IsList(m) /\ IsList(v) THEN List(Payload(m) \o Payload(v))
                   ELSE v>>]
\* The rule applied for each later mapping in order, from the j-th on.
RECURSIVE MergeRuleFrom(_, _, _)
MergeRuleFrom(acc, dict_list, j) ==
    IF j > Len(dict_list) THEN acc
    ELSE With(MergeRule(acc, Payload(dict_list[j])),
              LAMBDA next : MergeRuleFrom(next, dict_list, j + 1))

\* C3: merge_dicts on a non-empty list returns the first mapping after the
\* rule was applied for each later mapping in order: mappings are merged
\* recursively, sequences concatenated, any other value replaced by the
\* later one, and a key the later mapping lacks keeps its value.
C3_MergeFollowsRule ==
    (call.op = "merge_dicts" /\ ret # Pending /\ Payload(call.data) # <<>>)
    => ret = Dict(MergeRuleFrom(Payload(Payload(call.data)[1]), Payload(call.data), 2))
\* The merge of [{"a":{"x":1},"b":[1]}, {"a":{"x":2},"b":[2]}] was made
\* and gave {"a":{"x":2},"b":[1,2]}.
C3_Witness ==
    /\ call.op = "merge_dicts"
    /\ call.data = L2(D2("a", D1("x", Num(1)), "b", L1(Num(1))),
                      D2("a", D1("x", Num(2)), "b", L1(Num(2))))
    /\ ret = D2("a", D1("x", Num(2)), "b", L2(Num(1), Num(2)))

\* C4: the mapping merge_dicts returns for a non-empty list has exactly the
\* keys of the first mapping of the list.
C4_FirstSchemaKept ==
    (call.op = "merge_dicts" /\ ret # Pending /\ Payload(call.data) # <<>>)
    => (IsDict(ret) /\ KeySet(Payload(ret)) = KeySet(Payload(Payload(call.data)[1])))
\* A merge was made whose last mapping has a key the first has not.
C4_Witness ==
    /\ call.op = "merge_dicts" /\ ret # Pending
    /\ Len(Payload(call.data)) >= 2
    /\ HasKey(Payload(Payload(call.data)[Len(Payload(call.data))]), "b")
    /\ ~HasKey(Payload(Payload(call.data)[1]), "b")
    /\ KeySet(Payload(ret)) = {"a"}

\* The values the JSON files of directory p parse to, in the order rev lists
\* them.
DirParsed(F, p, rev) ==
    [i \in 1..Len(GlobJson(F, p, rev)) |-> JsonLoadFile(F, GlobJson(F, p, rev)[i])]
\* p is a directory whose files are JSON files of its own, each of which
\* parses.
DirOfJsonFiles(F, p) ==
    /\ p \in AllPaths /\ IsDir(F, p)
    /\ GlobJson(F, p, FALSE) # <<>>
    /\ Range(WalkFiles(F, p, FALSE)) = Range(GlobJson(F, p, FALSE))
    /\ \A i \in 1..Len(DirParsed(F, p, FALSE)) : ~IsRaise(DirParsed(F, p, FALSE)[i])

\* C5: j_loads on a directory of JSON files returns the merge of the parsed
\* values when each of them is a mapping, and otherwise the list of the
\* parsed values, one per file, in an order of the files.
C5_DirectoryLoad ==
    ( /\ call.op \in {"j_loads", "py_j_loads"} /\ ret # Pending
      /\ IsPath(call.data)
      /\ DirOfJsonFiles(fs, Payload(call.data)) )
    => \E rev \in BOOLEAN :
          With(DirParsed(fs, Payload(call.data), rev), LAMBDA parsed :
              IF \A i \in 1..Len(parsed) : IsDict(parsed[i])
              THEN ret = merge_dicts(parsed)
              ELSE ret = List(parsed))

\* The keys of the mappings of v, at every depth.
RECURSIVE KeysWithin(_)
KeysWithin(v) ==
    CASE Tag(v) = "dict" ->
            KeySet(Payload(v))
            \cup UNION {KeysWithin(Payload(v)[i][2]) : i \in 1..Len(Payload(v))}
      [] Tag(v) = "list" -> UNION {KeysWithin(Payload(v)[i]) : i \in 1..Len(Payload(v))}
      [] OTHER -> {}
\* v with the key old_key of every mapping, at every depth, named new_key.
RECURSIVE Renamed(_, _, _)
Renamed(v, old_key, new_key) ==
    CASE Tag(v) = "dict" ->
            Dict([i \in 1..Len(Payload(v)) |->
                    << IF Payload(v)[i][1] = old_key THEN new_key ELSE Payload(v)[i][1],
                       Renamed(Payload(v)[i][2], old_key, new_key) >>])
      [] Tag(v) = "list" ->
            List([i \in 1..Len(Payload(v)) |-> Renamed(Payload(v)[i], old_key, new_key)])
      [] OTHER -> v

\* C6: replace_key_in_json(data, old, new), on data where new names no key
\* yet, returns and leaves data with every key old, at every depth, named
\* new and with everything else as it was.
C6_RenamesAtEveryDepth ==
    ( /\ call.op = "replace_key_in_json" /\ ret # Pending
      /\ (call.from = call.mode \/ call.from \notin KeysWithin(call.data)) )
    => /\ ~IsRaise(ret)
       /\ PyEq(obj, Renamed(call.data, call.mode, call.from))

\* C7: j_loads of the value j_dumps(v) returned, for v of JSON-representable
\* types, equals v.
C7_RoundTripOfReturnedValue ==
    ( /\ call.op = "j_loads" /\ call.from = "ret"
      /\ call.path = None /\ call.mode = "w"
      /\ JsonRepresentable(obj) )
    => PyEq(ret, obj)

\* The argument of the load is one that cannot be loaded: a str that is
\* empty or not a JSON document, a value of an unsupported type, or a file,
\* not a tabular one, that cannot be read or parsed.
LoadArgUnloadable ==
    \/ /\ IsStr(call.data)
       /\ \/ IsRaise(clean_string(call.data))
          \/ IsRaise(JsonLoads(Payload(clean_string(call.data))))
    \/ Tag(call.data) \in {"null", "bool", "num", "list", "ns", "obj"}
    \/ /\ IsPath(call.data)
       /\ IsFile(fs, Payload(call.data))
       /\ Suffix(Payload(call.data)) # ".csv"
       /\ IsRaise(JsonLoadFile(fs, Payload(call.data)))

LoadFails ==
    \/ LoadArgUnloadable
    \/ IsPath(call.data) /\ ~Exists(fs, Payload(call.data))
    \/ /\ IsPath(call.data)
       /\ IsFile(fs, Payload(call.data))
       /\ Suffix(Payload(call.data)) = ".csv"
       /\ IsRaise(ReadCsv(fs, Payload(call.data)))

\* C9: a load that fails returns neither the empty mapping nor the empty
\* list, the values a load of empty data returns.
C9_FailureIsNotEmptyResult ==
    (call.op = "j_loads" /\ ret # Pending /\ LoadFails)
    => ret \notin {EmptyDict, EmptyList}

\* The file at the path of the dump holds the document of the value
\* returned.
DumpWroteReturned ==
    /\ IsFile(fs, DumpPath)
    /\ JsonChunks(ret).ok
    /\ FileText(fs, DumpPath) = JsonChunks(ret).out

\* C10: j_dumps, in both variants, returns the value it wrote, or None when
\* it failed; it never returns an exception object.
C10_DumpReturnsValueOrNone ==
    (call.op \in {"j_dumps", "py_j_dumps"})
    => /\ ~IsExc(ret)
       /\ (DumpHasPath /\ ret # None) => DumpWroteReturned

\* v holds no namespace, at any depth.
RECURSIVE NoNamespace(_)
NoNamespace(v) ==
    CASE Tag(v) = "ns" -> FALSE
      [] Tag(v) = "list" -> \A i \in 1..Len(Payload(v)) : NoNamespace(Payload(v)[i])
      [] Tag(v) = "dict" -> \A i \in 1..Len(Payload(v)) : NoNamespace(Payload(v)[i][2])
      [] OTHER -> TRUE
\* v with every namespace replaced by the mapping of its attributes.
RECURSIVE Plain(_)
Plain(v) ==
    IF Tag(v) \in {"ns", "dict"}
    THEN Dict([i \in 1..Len(Payload(v)) |-> <<Payload(v)[i][1], Plain(Payload(v)[i][2])>>])
    ELSE IF Tag(v) = "list"
    THEN List([i \in 1..Len(Payload(v)) |-> Plain(Payload(v)[i])])
    ELSE v

\* C11: what j_dumps returns holds no namespace at any depth; a dump that
\* merges nothing returns, and writes, the data with every namespace turned
\* into the mapping of its attributes.
C11_NamespacesConverted ==
    (call.op \in {"j_dumps", "py_j_dumps"})
    => /\ NoNamespace(ret)
       /\ (call.mode = "w" /\ ~DumpHasPath) => ret = Plain(obj)
       /\ (call.mode = "w" /\ DumpHasPath /\ ret # None /\ ~IsExc(ret))
            => /\ ret = Plain(obj)
               /\ FileText(fs, DumpPath) = JsonChunks(Plain(obj)).out
\* A dump of a mapping with a namespace that holds a sequence holding a
\* namespace was written.
C11_Witness ==
    /\ call.op = "j_dumps" /\ call.mode = "w" /\ DumpHasPath
    /\ obj = D1("a", NS(<< <<"b", L1(NS(<< <<"a", Str("x")>> >>))>> >>))
    /\ ret = D1("a", D1("b", L1(D1("a", Str("x")))))
    /\ IsFile(fs, DumpPath)

\* The two files whose conversion back is paired with dict2ns in a round trip.
RoundTripVariants == {"convertors/dicst2ns_ns2dict.py", "convertor/dict2ns_ns2dict.py"}

\* C12: converting a mapping with identifier keys to a namespace and back
\* with the recursive conversions gives a value equal to the mapping as it
\* was before the conversion.
C12_NamespaceRoundTrip ==
    (call.op = "ns2dict" /\ call.mode \in RoundTripVariants /\ IsDict(call.data))
    => PyEq(ret, call.data)

C12_Witness ==
    /\ call.op = "ns2dict" /\ call.mode = "convertors/dicst2ns_ns2dict.py"
    /\ call.data = D2("a", D1("b", D1("a", Num(1))), "b", L1(D1("a", Num(1))))
    /\ obj # call.data
    /\ ret = call.data

\* Every mapping of v, at every depth, as a namespace; anything else as it is.
RECURSIVE Namespaced(_)
Namespaced(v) ==
    IF IsDict(v)
    THEN NS([i \in 1..Len(Payload(v)) |-> <<Payload(v)[i][1], Namespaced(Payload(v)[i][2])>>])
    ELSE IF IsList(v)
    THEN List([i \in 1..Len(Payload(v)) |-> Namespaced(Payload(v)[i])])
    ELSE v

\* C13: dict2ns turns every nested mapping and every sequence element that
\* is a mapping into a namespace at every nesting depth; scalars and other
\* elements are passed through unchanged, an empty mapping gives an empty
\* namespace and an empty sequence an empty sequence.
C13_EveryMappingBecomesNamespace ==
    (call.op = "dict2ns" /\ ret # Pending) => ret = Namespaced(call.data)

\* C14: ns2dict of src/convertors/ns.py, given a namespace built by dict2ns,
\* returns a mapping holding no namespace at any depth.
C14_Ns2DictLeavesNoNamespace ==
    (call.op = "ns2dict" /\ call.mode = "convertors/ns.py" /\ IsDict(call.data))
    => /\ IsDict(ret)
       /\ NoNamespace(ret)

\* C15: replace_key_in_json(x, "name", "category_name") applied to a
\* structure it was already applied to leaves the structure as the first
\* application left it.
C15_RenameIdempotent ==
    ( /\ call.op = "replace_key_in_json" /\ calls >= 2
      /\ call.mode = "name" /\ call.from = "category_name" )
    => PyEq(obj, call.data)

\* a and b have the same keys at every depth, sequences of the same length,
\* and differ at most in their scalar leaves.
RECURSIVE SameSchema(_, _)
SameSchema(a, b) ==
    IF IsDict(a) /\ IsDict(b)
    THEN /\ KeySet(Payload(a)) = KeySet(Payload(b))
         /\ \A k \in KeySet(Payload(a)) :
                SameSchema(GetItem(Payload(a), k), GetItem(Payload(b), k))
    ELSE IF IsList(a) /\ IsList(b)
    THEN /\ Len(Payload(a)) = Len(Payload(b))
         /\ \A i \in 1..Len(Payload(a)) : SameSchema(Payload(a)[i], Payload(b)[i])
    ELSE Tag(a) \notin {"dict", "list"} /\ Tag(b) \notin {"dict", "list"}

\* C16: for mappings a, b, c with the same keys at every depth that differ
\* only in scalar leaves, merge_dicts([a, b, c]) equals
\* merge_dicts([merge_dicts([a, b]), c]).
C16_MergeAssociativeUnderSchema ==
    ( /\ call.op = "merge_dicts" /\ ret # Pending
      /\ Len(Payload(call.data)) = 3
      /\ SameSchema(Payload(call.data)[1], Payload(call.data)[2])
      /\ SameSchema(Payload(call.data)[1], Payload(call.data)[3]) )
    => PyEq(ret, merge_dicts(<<merge_dicts(<<Payload(call.data)[1], Payload(call.data)[2]>>),
                               Payload(call.data)[3]>>))
\* The merge of three mappings {"a": {"x": n}, "b": [m]} was made.
C16_Witness ==
    /\ call.op = "merge_dicts"
    /\ call.data = List(<<D2("a", D1("x", Num(1)), "b", L1(Num(1))),
                          D2("a", D1("x", Num(2)), "b", L1(Num(2))),
                          D2("a", D1("x", Num(1)), "b", L1(Num(1)))>>)
    /\ ret = D2("a", D1("x", Num(1)), "b", List(<<Num(1), Num(2), Num(1)>>))

\* C17: merge_dicts on an empty list raises an error of invalid usage, and
\* not the IndexError of indexing into the empty list.
C17_EmptyMergeIsUsageError ==
    (call.op = "merge_dicts" /\ ret # Pending /\ Payload(call.data) = <<>>)
    => (IsRaise(ret) /\ ret # Raise("IndexError"))

\* The repair pass: the Markdown fence around the text is taken off and the
\* over-escaped quotes are unescaped.
Repaired(toks) ==
    LET inner == SelectSeq(toks, LAMBDA t : t \notin {FenceOpen, FenceClose})
    IN  [i \in 1..Len(inner) |->
            IF \E k \in AllStrings : OverQuote(k) = inner[i]
            THEN Quote(CHOOSE k \in AllStrings : OverQuote(k) = inner[i])
            ELSE inner[i]]

\* C18: j_loads of a str that is not valid JSON and becomes valid JSON by
\* the repair pass returns the value the repaired text parses to.
C18_RepairedStringLoads ==
    ( /\ call.op \in {"j_loads", "py_j_loads"} /\ ret # Pending /\ ~call.ordered
      /\ IsStr(call.data)
      /\ IsRaise(JsonLoads(AsText(call.data)))
      /\ ~IsRaise(JsonLoads(Repaired(AsText(call.data)))) )
    => ret = JsonLoads(Repaired(AsText(call.data)))

\* C19: j_loads of a mapping or a sequence already in memory returns it as
\* it is, a list as well as a dict.
C19_InMemoryValuePassedThrough ==
    ( /\ call.op \in {"j_loads", "py_j_loads"} /\ ret # Pending
      /\ Tag(call.data) \in {"dict", "list"} /\ NoNamespace(call.data) )
    => ret = call.data

\* F without the files that are not immediate children of directory p.
ChildrenOnly(F, p) ==
    [q \in DOMAIN F |-> IF IsFile(F, q) /\ Parent(q) # p THEN Absent ELSE F[q]]

\* C20: j_loads of a directory returns what it returns when the directory
\* has its immediate children only: no file of a subdirectory contributes.
C20_DirectoryLoadIsShallow ==
    ( /\ call.op \in {"j_loads", "py_j_loads"} /\ ret # Pending
      /\ IsPath(call.data) /\ IsDir(fs, Payload(call.data)) )
    => \E rev \in BOOLEAN :
          ret = IF call.op = "j_loads"
                THEN j_loads(call.data, call.ordered,
                             ChildrenOnly(fs, Payload(call.data)), rev).ret
                ELSE py_j_loads(call.data, ChildrenOnly(fs, Payload(call.data)), rev).ret

\* What the call of thread t does when it runs alone on the filesystem the
\* two calls started from.
Alone(t) ==
    CHOOSE r \in {j_dumps(threads[t].arg, PathV(threads[t].path), threads[t].mode, pre, rev) :
                    rev \in BOOLEAN} : TRUE

\* C21: two j_dumps calls that run concurrently on different destinations:
\* when both are done, under every interleaving of their steps, each
\* destination holds what its call writes when it runs alone and each call
\* has returned what it returns alone.
C21_ConcurrentDumpsIndependent ==
    (call.from = "threads" /\ \A t \in DOMAIN threads : threads[t].pc = "done")
    => \A t \in DOMAIN threads :
          /\ fs[threads[t].path] = Alone(t).fs[threads[t].path]
          /\ ret[t] = Alone(t).ret
\* Both calls found the directory n missing, both have written their file
\* in it and returned their data.
C21_Witness ==
    /\ call.from = "threads"
    /\ \A t \in DOMAIN threads : threads[t].pc = "done" /\ ret[t] = D1("b", Num(2))
    /\ {threads[t].path : t \in DOMAIN threads} = {"n/g.json", "n/h.json"}
    /\ ~Exists(pre, "n")
    /\ \A t \in DOMAIN threads : FileText(fs, threads[t].path) = JsonChunks(D1("b", Num(2))).out

\* The namespace conversion of loaded data: dict2ns of a mapping, the
\* conversion of each element of a list.
NamespaceOf(data) ==
    IF IsList(data)
    THEN List([i \in 1..Len(Payload(data)) |-> dict2ns(Payload(data)[i])])
    ELSE dict2ns(data)

\* C22: whenever j_loads loads the source, j_loads_ns with the same
\* arguments returns the namespace conversion of the loaded data, and not
\* None.
C22_LoadedDataBecomesNamespace ==
    (call.op = "j_loads_ns" /\ ret # Pending /\ ~LoadFails)
    => \E rev \in BOOLEAN :
          \E ld \in {j_loads(call.data, call.ordered, fs, rev).ret} :
              ld \notin {None, PyFalse} => ret = NamespaceOf(ld)

\* C23: j_dumps with a mode other than "w", "a" and "a+" raises ValueError
\* and writes nothing.
C23_UnsupportedModeRaises ==
    (call.op = "j_dumps" /\ call.mode \notin {"w", "a", "a+"})
    => (ret = Raise("ValueError") /\ fs = pre)

\* C24: j_loads of src/jjson.py with ordered=True, on a str or a JSON file
\* that the call with ordered=False loads as a mapping, returns a mapping
\* with the same keys and values.
C24_OrderedLoadSameData ==
    ( /\ call.op = "j_loads" /\ ret # Pending /\ call.ordered
      /\ \/ IsStr(call.data)
         \/ /\ IsPath(call.data) /\ IsFile(fs, Payload(call.data))
            /\ Suffix(Payload(call.data)) = ".json"
      /\ IsDict(j_loads(call.data, FALSE, fs, FALSE).ret) )
    => PyEq(ret, j_loads(call.data, FALSE, fs, FALSE).ret)

\* File p held JSON data with the key "name" at some depth when the call
\* started, and holds the same data with every "name" named "category_name".
NameReplacedIn(p) ==
    ( /\ IsFile(pre, p) /\ ~IsRaise(JsonLoadFile(pre, p))
      /\ "name" \in KeysWithin(JsonLoadFile(pre, p)) )
    => /\ IsFile(fs, p)
       /\ PyEq(JsonLoadFile(fs, p), Renamed(JsonLoadFile(pre, p), "name", "category_name"))

\* C25: after process_json_file(f) the file f, and after
\* recursive_process_json_files(d) every .json file under d, that held the
\* key "name" holds the same data with "category_name" for every "name".
C25_ProcessedFileRenamed ==
    /\ (call.op = "process_json_file" /\ ret # Pending) => NameReplacedIn(Payload(call.data))
    /\ (call.op = "recursive_process_json_files" /\ ret # Pending)
          => \A p \in {"d/x.json", "d/y.json", "d/sub/z.json"} : NameReplacedIn(p)

\* C26: read_text_file of an existing, readable file returns all of it: the
\* list of its stripped lines when a list is asked for, its whole text as one
\* str otherwise; of a path that does not exist it returns None.
C26_ReadReturnsWholeFile ==
    (call.op = "read_text_file" /\ ret # Pending)
    => /\ (IsFile(fs, Payload(call.data)) /\ ~IsRaise(ReadText(fs, Payload(call.data))))
            => ret = IF call.as_list
                     THEN List(StrippedLines(FileText(fs, Payload(call.data))))
                     ELSE Text(FileText(fs, Payload(call.data)))
       /\ ~Exists(fs, Payload(call.data)) => ret = None

\* rows is a non-empty list of flat mappings of strs with the same keys.
FlatRows(rows) ==
    /\ IsList(rows) /\ Payload(rows) # <<>>
    /\ \A i \in 1..Len(Payload(rows)) :
          /\ IsDict(Payload(rows)[i])
          /\ KeySeq(Payload(Payload(rows)[i])) = KeySeq(Payload(Payload(rows)[1]))
          /\ \A j \in 1..Len(Payload(Payload(rows)[i])) :
                Tag(Payload(Payload(rows)[i])[j][2]) = "str"

\* C27: after json_to_csv(rows, path) returned True for rows as above,
\* read_csv_file(path) and csv_to_json(path, ...) return the rows, whether
\* or not the file was there before.
C27_CsvRoundTrip ==
    ( /\ call.op \in {"read_csv_file", "csv_to_json"} /\ call.from = "json_to_csv"
      /\ FlatRows(call.data) )
    => PyEq(ret, call.data)

\* C28: merge_dicts modifies the first mapping of the list only: every later
\* mapping, with the sequences and mappings nested in it, is after the call
\* what it was before it.
C28_LaterMappingsUnchanged ==
    (call.op = "merge_dicts" /\ ret # Pending /\ ~IsRaise(ret))
    => \A j \in 2..Len(Payload(call.data)) : Payload(obj)[j] = Payload(call.data)[j]

\* C29: if j_dumps with mode "w" fails while it writes, on data json.dump
\* cannot serialize, the destination file holds what it held before the call.
C29_FailedOverwriteKeepsFile ==
    ( /\ call.op \in {"j_dumps", "py_j_dumps"} /\ call.mode = "w"
      /\ DumpHasPath
      /\ IsFile(pre, DumpPath)
      /\ ~JsonChunks(convert_to_dict(call.data)).ok )
    => fs[DumpPath] = pre[DumpPath]

\* C30: dict2ns, and j_loads_ns given a mapping in memory, leave the mapping
\* they were given as it was before the call.
C30_ArgumentMappingUnchanged ==
    (call.op \in {"dict2ns", "j_loads_ns"} /\ ret # Pending /\ IsDict(call.data))
    => obj = call.data

====
